---- MODULE Spec2Model ----
(***************************************************************************)
(* Model of the fetch subsystem of purify: the scraper facade (DoScrape),  *)
(* the multi-engine Dispatcher with its Domain Memory, and the adaptive    *)
(* page pool.  Time is a discrete clock counted in seconds.                *)
(***************************************************************************)
EXTENDS Integers, Sequences, FiniteSets, TLC

\* ------------------------------------------------------------------ bounds
MaxClock == 2          \* the clock stops here
MaxCalls == 2          \* DoScrape calls in one run
ttl == 1               \* DomainMemory.ttl, in ticks of the clock
MaxId == 3             \* handle ids the factory can hand out
MaxUses == 2           \* Puts one handle takes part in
MaxPages == 1          \* slots of the scraper's page pool
NumActions == 2        \* actions of a request that has actions
MaxCacheClock == 3     \* scaled milliseconds the cache is watched for
maxEntries == 2        \* Cache.maxEntries
MaxTextLen == 5        \* characters of a text given to Fingerprint
MaxTokens == 4         \* tokens of an HTML input given to FingerprintDOM
MaxChain == 12         \* redirects a server answers with in a row

\* ------------------------------------------------------- configuration
Engines == <<"http", "rod", "rod-stealth">>
EngineIds == 1..Len(Engines)
cfgDelays == <<0, 1, 2>>
MaxTimeoutCfg == 3     \* scraperCfg.MaxTimeout of the modelled deployment (PURIFY_MAX_TIMEOUT)
MinPages == 1          \* AdaptivePoolConfig.MinPages of the modelled deployment
HardMax == 2           \* AdaptivePoolConfig.HardMax of the modelled deployment
ScaleStepPct == 5      \* AdaptivePoolConfig.ScaleStep (0.05), in hundredths
RetireScore == 6       \* errScore 3.0; scores are kept in halves
RetireUses == 50       \* useCount at which a handle retires
SweepAge == 2                          \* cleanupLoop: entries older than one hour go (scaled)
DurBits == 5                           \* bits of a time.Duration (scaled from 64)
NsPerMs == 4                           \* time.Millisecond in Duration units (scaled)
HashBits == 4                          \* the low bits of the 64-bit hashes and fingerprints that are kept
FnvOffset == 5                         \* FNV-64a offset basis 14695981039346656037, its low HashBits bits
MaxVia == 10                           \* CheckRedirect: len(via) at which the client gives up
FnvPrime == 3                          \* FNV-64a prime 1099511628211, its low HashBits bits
Clients == {"c1", "c2"}                \* callers at work while the scaling loop runs
Callers == Clients \cup {"c3"}          \* callers at work between two ticks of the scaling loop
Hosts == {"a.test", "b.test"}
ReqTimeouts == {1, 30}

Min(a, b) == IF a < b THEN a ELSE b

\* Dispatcher.escalationDelays: a copy of the configured delays, one slot per engine.
escalationDelays == [i \in EngineIds |-> IF i <= Len(cfgDelays) THEN cfgDelays[i] ELSE 0]

\* Engine.Name()
Name(i) == Engines[i]

\* Mutant: the stealth engine reports the plain browser engine's name.
ResultNameRod(i) == IF i = 1 THEN "http" ELSE "rod"

\* FetchResult.EngineName as the engine's Fetch sets it on success.
ResultName(i) == IF i = 1 THEN "http" ELSE Name(i)

\* ------------------------------------------------------------- values
NoEntry == [engineName |-> "", expiresAt |-> -1]
NilErr == [kind |-> "nil", engine |-> 0]
NoResult == [engine |-> 0, EngineName |-> ""]
NoRet == [returned |-> FALSE, result |-> NoResult, err |-> NilErr]

VARIABLES
    now,            \* wall clock
    store,          \* DomainMemory.store: host -> entry
    pc,             \* position of the DoScrape / Dispatch call
    calls,          \* DoScrape calls made so far
    req,            \* the request of the current call
    callStart,      \* time the current DoScrape call began
    callerCancelled, \* the caller cancelled the context it passed
    deadline,       \* deadline of dispatchCtx
    memEngine,      \* engine the domain memory named, 0 if none
    memOutcome,     \* error kind the remembered engine's Fetch returned, "none", or "ok"
    raceStart,      \* time the race began
    raceCancelled,  \* raceCancel was called
    cause,          \* ctx.Err() of the race context: "" while it is not done
    pending,        \* history: tasks whose delay had not elapsed when the race context ended
    tpc,            \* position of each race task
    outcome,        \* what each task's Fetch returned
    results,        \* the results channel
    closed,         \* the results channel is closed
    lastErr,        \* race: lastErr
    dret,           \* what Dispatch returned
    rpc,            \* position inside doScrapeRod
    fallback,       \* doScrapeRod runs as the fallback after a Dispatcher failure
    rodDeadline,    \* deadline doScrapeRod installed
    fret,           \* what DoScrape returned
    startStore,     \* history: the store when the call began
    collected,      \* history: race results in the order the collector took them
    memSets,        \* history: DomainMemory.Set calls of the current Dispatch
    stepLate        \* history: a step of the call began after the call's deadline

dvars == <<now, store, pc, calls, req, callStart, callerCancelled, deadline, memEngine,
           memOutcome, raceStart, raceCancelled, cause, pending, tpc, outcome, results, closed,
           lastErr, dret, rpc, fallback, rodDeadline, fret, startStore, collected,
           memSets, stepLate>>

VARIABLES
    started,        \* NewAdaptivePool has returned
    all,            \* AdaptivePool.all: ids of the live handles
    idle,           \* AdaptivePool.idle: the channel of ready handles
    active,         \* AdaptivePool.active
    health,         \* per live handle: errScore (in halves) and useCount
    nextId,         \* ids the factory has handed out
    factoryFailed,  \* history: a factory call returned an error
    cpc,            \* position of each caller inside Get / Put
    held,           \* the handle each caller has in hand, 0 if none
    spc,            \* position of the scaling loop inside scaleCheck
    sh,             \* the handle scaleCheck has in hand, 0 if none
    pressure,       \* scaleCheck: memPressure > cfg.MemThreshold
    totalSize,      \* scaleCheck: totalSize
    left,           \* scaleCheck: iterations of the shrink / grow loop still to run
    stop,           \* Stop: its position, the handle it has in hand (0 if none), whether
                    \* scalingLoop has returned and, as history, whether no Get or Put
                    \* has taken a step since Stop began
    destroys,       \* history: per handle id, the calls of the destroyer
    sdone           \* history: what the scaleCheck in progress has destroyed and created,
                    \* and the ap.active it read

pvars == <<started, all, idle, active, health, nextId, factoryFailed, cpc, held, spc, sh,
           pressure, totalSize, left, stop, destroys, sdone>>

VARIABLES
    pagePool,       \* Scraper.pagePool: the channel of tab slots, 0 an empty slot
    created,        \* tabs the browser has opened for the pool
    at,             \* position of each scrape inside doScrapeRod
    page,           \* the tab each scrape has in hand, 0 if none
    sreq,           \* the ScrapeRequest of each scrape
    ctxErr,         \* the scrape's request context is done (deadline or cancel)
    waitIdle,       \* doScrapeRod's waitIdle: a network-idle watcher is installed
    sret,           \* what the scrape returned, NoRet before
    steps,          \* history: the browser operations of the scrape, in order
    expiredBlocked, \* history: the context ended while the scrape was blocked in Get
    acted,          \* history: the indices of req.Actions that executeActions has run
    failedAt,       \* the action index in the ActionFailed error, NoIndex if none
    tab,            \* the one-shot tab of a CDP scrape: none, open, closed
    remote          \* what the CDP scrape has done to the caller's browser

rvars == <<pagePool, created, at, page, sreq, ctxErr, waitIdle, sret, steps, expiredBlocked,
           acted, failedAt, tab, remote>>

VARIABLES
    cnow,           \* wall clock of the cache, in scaled milliseconds
    cstore,         \* Cache.store: key -> entry
    swpc,           \* cleanupLoop: idle, or holding c.mu inside its walk of the store
    sweepLeft,      \* cleanupLoop: the keys its walk has still to visit
    cutoff,         \* cleanupLoop: cutoff of the current sweep
    sweepDeletes,   \* history: entries deleted since cleanupLoop took c.mu
    lastSet,        \* history: the last Cache.Set (key, response, time, len(c.store) before)
    got,            \* the Cache.Get that has just returned, NoGot otherwise
    cacheStatus,    \* the CacheStatus field of each ScrapeResponse object
    hpos,           \* position of each request inside the Scrape handler
    hreq,           \* the request of each handler call (key, MaxAge)
    hobj,           \* the ScrapeResponse object the handler call has in hand, 0 if none
    hout,           \* the body the handler call wrote, NoBody before
    served,         \* history: how the handler call was served (cache or fetch)
    wrote           \* history: the handler call changed the store

cvars == <<cnow, cstore, swpc, sweepLeft, cutoff, sweepDeletes, lastSet, got, cacheStatus,
           hpos, hreq, hobj, hout, served, wrote>>

VARIABLES
    mlast,          \* history: per host, the last Set or Delete (kind, engine, time)
    mgot,           \* the DomainMemory.Get that has just returned, NoMemGot otherwise
    mget,           \* a DomainMemory.Get in progress: position, domain, the Sets it overlapped
    msweep          \* DomainMemory.cleanupLoop: position, its now, keys left, key in hand

mvars == <<mlast, mgot, mget, msweep>>

VARIABLES
    hfetch          \* the HTTPEngine.Fetch that has just returned: its response and result

hvars == <<hfetch>>

VARIABLES
    sim             \* the simhash call that has just returned: its arguments and result

svars == <<sim>>

vars == <<dvars, pvars, rvars, cvars, mvars, hvars, svars>>

\* What the actions of one part of the program leave alone.
exceptDispatcher == <<pvars, rvars, cvars, mvars, hvars, svars>>
exceptPool == <<dvars, rvars, cvars, mvars, hvars, svars>>
exceptPipeline == <<dvars, pvars, cvars, mvars, hvars, svars>>
exceptCache == <<dvars, pvars, rvars, mvars, hvars, svars>>
exceptMemory == <<pvars, rvars, cvars, hvars, svars>>
exceptHTTP == <<dvars, pvars, rvars, cvars, mvars, svars>>
exceptSimhash == <<dvars, pvars, rvars, cvars, mvars, hvars>>

\* ------------------------------------------------------- Domain Memory
\* DomainMemory.Get: the remembered name, "" when absent or expired.
MemGet(s, d, t) ==
    IF s[d] = NoEntry THEN ""
    ELSE IF t > s[d].expiresAt THEN ""
    ELSE s[d].engineName

\* The store after DomainMemory.Get: an expired entry is deleted on read.
MemGetStore(s, d, t) ==
    IF s[d] # NoEntry /\ t > s[d].expiresAt THEN [s EXCEPT ![d] = NoEntry] ELSE s

\* DomainMemory.Set
MemSet(s, d, e, t) == [s EXCEPT ![d] = [engineName |-> e, expiresAt |-> t + ttl]]

\* DomainMemory.Delete
MemDelete(s, d) == [s EXCEPT ![d] = NoEntry]

\* ------------------------------------------------------------ contexts
\* The caller's context is done.
CallerDone == callerCancelled

\* dispatchCtx (context.WithTimeout(ctx, timeout)) is done.
DispatchCtxDone == CallerDone \/ now >= deadline

\* raceCtx (context.WithCancel(dispatchCtx)) is done.
RaceCtxDone == raceCancelled \/ DispatchCtxDone

\* The context doScrapeRod installs on the caller's context is done.
RodCtxDone == CallerDone \/ now >= rodDeadline

\* What an engine's Fetch may return under a context whose Err() is c: success, a
\* failure of its own, or the context's error.
FetchOutcomes(c) == {"ok", "engine"} \cup (IF c = "" THEN {} ELSE {c})

\* The timeout DoScrape and doScrapeRod compute.
Timeout(r) == Min(r.timeout, MaxTimeoutCfg)

AllTasksDone == \A i \in EngineIds : tpc[i] \in {"none", "done"}

\* --------------------------------------------------------------- Init
DInit ==
    /\ now = 0
    /\ store = [h \in Hosts |-> NoEntry]
    /\ pc = "idle"
    /\ calls = 0
    /\ req = [host |-> "a.test", timeout |-> 1]
    /\ callStart = 0
    /\ callerCancelled = FALSE
    /\ deadline = 0
    /\ memEngine = 0
    /\ memOutcome = "none"
    /\ raceStart = 0
    /\ raceCancelled = FALSE
    /\ cause = ""
    /\ pending = {}
    /\ tpc = [i \in EngineIds |-> "none"]
    /\ outcome = [i \in EngineIds |-> "none"]
    /\ results = <<>>
    /\ closed = FALSE
    /\ lastErr = NilErr
    /\ dret = NoRet
    /\ rpc = "none"
    /\ fallback = FALSE
    /\ rodDeadline = 0
    /\ fret = NoRet
    /\ startStore = [h \in Hosts |-> NoEntry]
    /\ collected = <<>>
    /\ memSets = 0
    /\ stepLate = FALSE

\* The deadline the whole DoScrape call is documented to run under.
CallDeadline == callStart + Timeout(req)

\* A step of the call begins now: remember whether the call's deadline has passed.
Begins == stepLate' = (stepLate \/ now > CallDeadline)

\* ------------------------------------------------ DoScrape and Dispatch
\* The per-call state a new DoScrape call starts from.
NewCall(h, t) ==
    /\ calls' = calls + 1
    /\ req' = [host |-> h, timeout |-> t]
    /\ callStart' = now
    /\ callerCancelled' = FALSE
    /\ memOutcome' = "none"
    /\ raceCancelled' = FALSE
    /\ cause' = ""
    /\ pending' = {}
    /\ tpc' = [i \in EngineIds |-> "none"]
    /\ outcome' = [i \in EngineIds |-> "none"]
    /\ results' = <<>>
    /\ closed' = FALSE
    /\ lastErr' = NilErr
    /\ dret' = NoRet
    /\ fret' = NoRet
    /\ startStore' = store
    /\ collected' = <<>>
    /\ memSets' = 0
    /\ stepLate' = FALSE
    /\ UNCHANGED <<now, raceStart>>

\* doScrapeRod entry: install the timeout on the caller's context and ask the
\* page pool for a page.
RodEnter(t, fb) ==
    /\ rodDeadline' = now + Min(t, MaxTimeoutCfg)
    /\ fallback' = fb
    /\ rpc' = "acquire"
    /\ pc' = "rod"

\* Mutant: Dispatch never consults the domain memory.
DispatchLookupNoMemory(h) ==
    /\ store' = MemGetStore(store, h, now)
    /\ memEngine' = 0
    /\ pc' = "race"

\* Dispatch up to the race: look the host up in the domain memory and, on a hit
\* that names a configured engine, call that engine's Fetch.
DispatchLookup(h) ==
    LET remembered == MemGet(store, h, now)
        hit == {i \in EngineIds : Name(i) = remembered}
    IN  /\ store' = MemGetStore(store, h, now)
        /\ IF remembered # "" /\ hit # {}
           THEN /\ memEngine' = CHOOSE i \in hit : \A j \in hit : i <= j
                /\ pc' = "memFetch"
           ELSE /\ memEngine' = 0
                /\ pc' = "race"

\* DoScrape with the dispatcher installed and a request without actions.
DoScrapeDispatch(h, t) ==
    /\ pc \in {"idle", "done"}
    /\ calls < MaxCalls
    /\ AllTasksDone
    /\ NewCall(h, t)
    /\ deadline' = now + Min(t, MaxTimeoutCfg)
    /\ DispatchLookup(h)
    /\ fallback' = FALSE
    /\ UNCHANGED <<rpc, rodDeadline>>
    /\ UNCHANGED exceptDispatcher

\* DoScrape of a request that carries actions: the direct browser path.
DoScrapeDirect(h, t) ==
    /\ pc \in {"idle", "done"}
    /\ calls < MaxCalls
    /\ AllTasksDone
    /\ NewCall(h, t)
    /\ RodEnter(t, FALSE)
    /\ UNCHANGED <<store, deadline, memEngine>>
    /\ UNCHANGED exceptDispatcher

\* DoScrape goes on to doScrapeRod when Dispatch returned this error.
FallsBack(err) == err # NilErr

\* Dispatch returns r to DoScrape, which returns the result on success and
\* falls through to doScrapeRod otherwise.
DispatchReturns(r) ==
    /\ dret' = r
    /\ IF FallsBack(r.err)
       THEN /\ RodEnter(req.timeout, TRUE)
            /\ Begins
            /\ fret' = fret
       ELSE /\ fret' = [returned |-> TRUE, result |-> r.result, err |-> NilErr]
            /\ pc' = "done"
            /\ UNCHANGED <<rpc, fallback, rodDeadline, stepLate>>

\* Mutant: a failed remembered engine stays remembered.
AfterMemFetchKeep(s, d, o) == s

\* The store after the remembered engine's Fetch returned with outcome o.
AfterMemFetch(s, d, o) == IF o = "ok" THEN s ELSE MemDelete(s, d)

\* Mutant: Dispatch goes on to the race whatever the remembered engine returned.
NeverNil(o) == FALSE

\* if err == nil, for the remembered engine's Fetch
ErrIsNil(o) == o = "ok"

\* The remembered engine's Fetch returns.
MemFetchReturn(o) ==
    /\ pc = "memFetch"
    /\ o \in FetchOutcomes(cause)
    /\ memOutcome' = o
    /\ store' = AfterMemFetch(store, req.host, o)
    /\ IF ErrIsNil(o)
       THEN DispatchReturns([returned |-> TRUE,
                             result |-> [engine |-> memEngine,
                                         EngineName |-> ResultName(memEngine)],
                             err |-> NilErr])
       ELSE /\ pc' = "race"
            /\ UNCHANGED <<dret, fret, rpc, fallback, rodDeadline, stepLate>>
    /\ UNCHANGED <<now, calls, req, callStart, callerCancelled, deadline, memEngine,
                   raceStart, raceCancelled, cause, pending, tpc, outcome, results, closed,
                   lastErr, startStore, collected, memSets>>
    /\ UNCHANGED exceptDispatcher

\* race: create raceCtx and the results channel and spawn one task per engine.
RaceSpawn ==
    /\ pc = "race"
    /\ raceStart' = now
    /\ tpc' = [i \in EngineIds |-> "delay"]
    /\ pending' = IF cause # "" THEN {i \in EngineIds : escalationDelays[i] > 0} ELSE {}
    /\ pc' = "collect"
    /\ UNCHANGED <<now, store, calls, req, callStart, callerCancelled, deadline, memEngine,
                   memOutcome, raceCancelled, cause, outcome, results, closed, lastErr, dret,
                   rpc, fallback, rodDeadline, fret, startStore, collected, memSets,
                   stepLate>>
    /\ UNCHANGED exceptDispatcher

\* The tasks still waiting at time t for a delay that has not elapsed.
Waiting(t) == {i \in EngineIds : tpc[i] = "delay" /\ t < raceStart + escalationDelays[i]}

\* The race context ends at time t with error c, unless it has ended before.
CtxEnds(c, t) ==
    IF cause # ""
    THEN UNCHANGED <<cause, pending>>
    ELSE cause' = c /\ pending' = Waiting(t)

\* -------------------------------------------------------- race tasks
\* select { <-raceCtx.Done(): return; <-time.After(d): }, entered only when d > 0,
\* the raceCtx.Done() branch: the task returns.
TaskAbort(i) ==
    /\ tpc[i] = "delay"
    /\ escalationDelays[i] > 0
    /\ RaceCtxDone
    /\ tpc' = [tpc EXCEPT ![i] = "done"]
    /\ UNCHANGED <<now, store, pc, calls, req, callStart, callerCancelled, deadline,
                   memEngine, memOutcome, raceStart, raceCancelled, cause, pending, outcome,
                   results, closed, lastErr, dret, rpc, fallback, rodDeadline, fret,
                   startStore, collected, memSets, stepLate>>
    /\ UNCHANGED exceptDispatcher

\* Mutant: the task does not look at the race context again after its delay.
AfterDelayNoCheck(done) == "fetch"

\* Where a task goes after its delay: it returns when the race context is done,
\* and calls its engine's Fetch otherwise.
AfterDelay(done) == IF done THEN "done" ELSE "fetch"

\* The delay is over (no delay, or the timer's branch of the select); then
\* select { <-raceCtx.Done(): return; default: } and e.Fetch(raceCtx, req) is called.
TaskStart(i) ==
    /\ tpc[i] = "delay"
    /\ now >= raceStart + escalationDelays[i]
    /\ tpc' = [tpc EXCEPT ![i] = AfterDelay(RaceCtxDone)]
    /\ IF AfterDelay(RaceCtxDone) = "fetch" THEN Begins ELSE UNCHANGED stepLate
    /\ UNCHANGED <<now, store, pc, calls, req, callStart, callerCancelled, deadline,
                   memEngine, memOutcome, raceStart, raceCancelled, cause, pending, outcome,
                   results, closed, lastErr, dret, rpc, fallback, rodDeadline, fret,
                   startStore, collected, memSets>>
    /\ UNCHANGED exceptDispatcher

\* The raceResult a task posts for its Fetch outcome.
RaceResult(i, o) ==
    IF o = "ok"
    THEN [result |-> [engine |-> i, EngineName |-> ResultName(i)], err |-> NilErr]
    ELSE [result |-> NoResult, err |-> [kind |-> o, engine |-> i]]

\* The engine's Fetch returns to its task, which posts the outcome:
\* results <- raceResult{...}; the channel holds len(d.engines) results.
TaskFetchReturn(i, o) ==
    /\ tpc[i] = "fetch"
    /\ o \in FetchOutcomes(cause)
    /\ Len(results) < Len(Engines)
    /\ outcome' = [outcome EXCEPT ![i] = o]
    /\ results' = Append(results, RaceResult(i, o))
    /\ tpc' = [tpc EXCEPT ![i] = "done"]
    /\ UNCHANGED <<now, store, pc, calls, req, callStart, callerCancelled, deadline,
                   memEngine, memOutcome, raceStart, raceCancelled, cause, pending, closed,
                   lastErr, dret, rpc, fallback, rodDeadline, fret, startStore, collected,
                   memSets, stepLate>>
    /\ UNCHANGED exceptDispatcher

\* Mutant: the channel is closed as soon as one task is done.
WaitGroupAny == \E i \in EngineIds : tpc[i] = "done"

\* wg.Wait() returns: every task is done.
WaitGroupDone == \A i \in EngineIds : tpc[i] = "done"

\* go func() { wg.Wait(); close(results) }()
CloseResults ==
    /\ ~closed
    /\ WaitGroupDone
    /\ closed' = TRUE
    /\ UNCHANGED <<now, store, pc, calls, req, callStart, callerCancelled, deadline,
                   memEngine, memOutcome, raceStart, raceCancelled, cause, pending, tpc,
                   outcome, results, lastErr, dret, rpc, fallback, rodDeadline, fret,
                   startStore, collected, memSets, stepLate>>
    /\ UNCHANGED exceptDispatcher

\* --------------------------------------------------------- collector
\* for rr := range results, a failure: keep it as lastErr and go on.
CollectErr ==
    /\ pc = "collect"
    /\ results # <<>>
    /\ Head(results).err # NilErr
    /\ lastErr' = Head(results).err
    /\ results' = Tail(results)
    /\ collected' = Append(collected, Head(results))
    /\ UNCHANGED <<now, store, pc, calls, req, callStart, callerCancelled, deadline,
                   memEngine, memOutcome, raceStart, raceCancelled, cause, pending, tpc,
                   outcome, closed, dret, rpc, fallback, rodDeadline, fret, startStore,
                   memSets, stepLate>>
    /\ UNCHANGED exceptDispatcher

\* Mutant: the collector remembers the engine of a success and goes on collecting.
CollectOKGoOn ==
    /\ pc = "collect"
    /\ results # <<>>
    /\ Head(results).err = NilErr
    /\ raceCancelled' = TRUE
    /\ CtxEnds("canceled", now)
    /\ store' = MemSet(store, req.host, Head(results).result.EngineName, now)
    /\ memSets' = memSets + 1
    /\ results' = Tail(results)
    /\ collected' = Append(collected, Head(results))
    /\ UNCHANGED <<now, pc, calls, req, callStart, callerCancelled, deadline, memEngine,
                   memOutcome, raceStart, tpc, outcome, closed, lastErr, dret, rpc,
                   fallback, rodDeadline, fret, startStore, stepLate>>
    /\ UNCHANGED exceptDispatcher

\* for rr := range results, a success: cancel the race, remember the engine, return.
CollectOK ==
    /\ pc = "collect"
    /\ results # <<>>
    /\ Head(results).err = NilErr
    /\ raceCancelled' = TRUE
    /\ CtxEnds("canceled", now)
    /\ store' = MemSet(store, req.host, Head(results).result.EngineName, now)
    /\ memSets' = memSets + 1
    /\ results' = Tail(results)
    /\ collected' = Append(collected, Head(results))
    /\ DispatchReturns([returned |-> TRUE, result |-> Head(results).result, err |-> NilErr])
    /\ UNCHANGED <<now, calls, req, callStart, callerCancelled, deadline, memEngine,
                   memOutcome, raceStart, tpc, outcome, closed, lastErr, startStore>>
    /\ UNCHANGED exceptDispatcher

\* The error race returns when the channel is drained without a success.
RaceError(e) == IF e = NilErr THEN [kind |-> "allfailed", engine |-> 0] ELSE e

\* The range loop ends: the channel is closed and empty.
CollectClosed ==
    /\ pc = "collect"
    /\ results = <<>>
    /\ closed
    /\ raceCancelled' = TRUE
    /\ CtxEnds("canceled", now)
    /\ DispatchReturns([returned |-> TRUE, result |-> NoResult, err |-> RaceError(lastErr)])
    /\ UNCHANGED <<now, store, calls, req, callStart, callerCancelled, deadline, memEngine,
                   memOutcome, raceStart, tpc, outcome, results, closed, lastErr,
                   startStore, collected, memSets>>
    /\ UNCHANGED exceptDispatcher

\* ------------------------------------------------------- doScrapeRod
RodReturn(result, kind) ==
    /\ fret' = [returned |-> TRUE, result |-> result, err |-> [kind |-> kind, engine |-> 0]]
    /\ rpc' = "none"
    /\ pc' = "done"

\* s.pagePool.Get returns: with a page (stealth, headers, cookies and the hijack
\* router are then installed on it), or with an error.
RodAcquired(ok) ==
    /\ pc = "rod"
    /\ rpc = "acquire"
    /\ IF ok
       THEN /\ rpc' = "setup"
            /\ Begins
            /\ UNCHANGED <<pc, fret>>
       ELSE /\ RodReturn(NoResult, "browser")
            /\ UNCHANGED stepLate
    /\ UNCHANGED <<now, store, calls, req, callStart, callerCancelled, deadline, memEngine,
                   memOutcome, raceStart, raceCancelled, cause, pending, tpc, outcome,
                   results, closed, lastErr, dret, fallback, rodDeadline, startStore,
                   collected, memSets>>
    /\ UNCHANGED exceptDispatcher

\* p.Navigate(req.URL) on the context-bound page.
RodNavigate ==
    /\ pc = "rod"
    /\ rpc = "setup"
    /\ IF RodCtxDone
       THEN /\ RodReturn(NoResult, "timeout")
            /\ UNCHANGED stepLate
       ELSE /\ rpc' = "navigate"
            /\ Begins
            /\ UNCHANGED <<pc, fret>>
    /\ UNCHANGED <<now, store, calls, req, callStart, callerCancelled, deadline, memEngine,
                   memOutcome, raceStart, raceCancelled, cause, pending, tpc, outcome,
                   results, closed, lastErr, dret, fallback, rodDeadline, startStore,
                   collected, memSets>>
    /\ UNCHANGED exceptDispatcher

\* Navigation, wait and extraction end: the pipeline returns.
RodFinish(k) ==
    /\ pc = "rod"
    /\ rpc = "navigate"
    /\ k \in {"nil", "navigation"} \cup (IF RodCtxDone THEN {"timeout"} ELSE {})
    /\ RodReturn(IF k = "nil" THEN [engine |-> 0, EngineName |-> "browser"] ELSE NoResult, k)
    /\ UNCHANGED <<now, store, calls, req, callStart, callerCancelled, deadline, memEngine,
                   memOutcome, raceStart, raceCancelled, cause, pending, tpc, outcome,
                   results, closed, lastErr, dret, fallback, rodDeadline, startStore,
                   collected, memSets, stepLate>>
    /\ UNCHANGED exceptDispatcher

\* ------------------------------------------------------- environment
\* The caller cancels the context it passed to DoScrape.
CallerCancel ==
    /\ pc \in {"memFetch", "race", "collect", "rod"}
    /\ ~callerCancelled
    /\ callerCancelled' = TRUE
    /\ IF pc = "rod" THEN UNCHANGED <<cause, pending>> ELSE CtxEnds("canceled", now)
    /\ UNCHANGED <<now, store, pc, calls, req, callStart, deadline, memEngine, memOutcome,
                   raceStart, raceCancelled, tpc, outcome, results, closed, lastErr, dret,
                   rpc, fallback, rodDeadline, fret, startStore, collected, memSets,
                   stepLate>>
    /\ UNCHANGED exceptDispatcher

\* A second passes; the clock starts with the first call.  The deadline of the
\* dispatch context may pass with it.
Tick ==
    /\ now < MaxClock
    /\ pc # "idle"
    /\ now' = now + 1
    /\ IF pc \in {"memFetch", "race", "collect"} /\ now + 1 >= deadline
       THEN CtxEnds("deadline", now + 1)
       ELSE UNCHANGED <<cause, pending>>
    /\ UNCHANGED <<store, pc, calls, req, callStart, callerCancelled, deadline, memEngine,
                   memOutcome, raceStart, raceCancelled, tpc, outcome, results, closed,
                   lastErr, dret, rpc, fallback, rodDeadline, fret, startStore, collected,
                   memSets, stepLate>>
    /\ UNCHANGED exceptDispatcher

ErrKinds == {"engine", "deadline", "canceled"}

\* Sanity: the recorded context error agrees with the contexts.
CauseAgrees == pc \in {"memFetch", "race", "collect"} => ((cause # "") <=> RaceCtxDone)

DNext ==
    \/ \E h \in Hosts, t \in ReqTimeouts : DoScrapeDispatch(h, t)
    \/ \E h \in Hosts, t \in ReqTimeouts : DoScrapeDirect(h, t)
    \/ \E o \in {"ok"} \cup ErrKinds : MemFetchReturn(o)
    \/ RaceSpawn
    \/ \E i \in EngineIds : TaskAbort(i)
    \/ \E i \in EngineIds : TaskStart(i)
    \/ \E i \in EngineIds, o \in {"ok"} \cup ErrKinds : TaskFetchReturn(i, o)
    \/ CloseResults
    \/ CollectErr
    \/ CollectOK
    \/ CollectClosed
    \/ \E ok \in BOOLEAN : RodAcquired(ok)
    \/ RodNavigate
    \/ \E k \in {"nil", "navigation", "timeout"} : RodFinish(k)
    \/ CallerCancel
    \/ Tick

\* ================================================= adaptive page pool
Fresh == [errScore |-> 0, useCount |-> 0]

\* Mutant: a success lowers the score without the floor at zero.
RecordSuccessNoFloor(h) == [h EXCEPT !.useCount = @ + 1, !.errScore = @ - 1]

\* PageHandle.RecordSuccess
RecordSuccess(h) ==
    [h EXCEPT !.useCount = @ + 1, !.errScore = IF @ - 1 < 0 THEN 0 ELSE @ - 1]

\* PageHandle.RecordFailure
RecordFailure(h) == [h EXCEPT !.useCount = @ + 1, !.errScore = @ + 2]

\* PageHandle.ShouldRetire; aged is time.Since(h.created) >= 50*time.Minute
ShouldRetire(h, aged) == h.errScore >= RetireScore \/ h.useCount >= RetireUses \/ aged

\* int(math.Ceil(float64(n) * cfg.ScaleStep))
ScaleCount(n) == (n * ScaleStepPct + 99) \div 100

\* Mutant: Get compares the live count with the hard maximum by <=.
UpToHardMax(n) == n <= HardMax

\* Get: len(ap.all) < ap.cfg.HardMax
UnderHardMax(n) == n < HardMax

\* Mutant: Put replaces a retired handle when the pool is at or below its minimum.
AtOrUnderMinimum(n) == n <= MinPages

\* Put: len(ap.all) < ap.cfg.MinPages
UnderMinimum(n) == n < MinPages

\* scaleCheck, shrink: len(ap.all) <= ap.cfg.MinPages
AtMinimum(n) == n <= MinPages

\* scaleCheck, grow: len(ap.all) >= ap.cfg.HardMax
AtHardMax(n) == n >= HardMax

\* Mutant: scaleCheck grows whatever the active rate is.
AnyRate(a, n) == n > 0

\* activeRate > 0.8, with activeRate = active / totalSize when totalSize > 0
Busy(a, n) == n > 0 /\ a * 10 > 8 * n

NoStop == [pc |-> "idle", h |-> 0, exited |-> FALSE, quiet |-> TRUE]

\* History: a step of Get or Put has been taken since Stop began (a Get or Put in
\* progress when Stop begins counts as well, see StopClose).
Overlapped(st) == IF st.pc = "idle" THEN st ELSE [st EXCEPT !.quiet = FALSE]
NoScale == [destroyed |-> 0, created |-> 0, active |-> 0]

\* ap.destroyer(id) is called.
Destroyer(id) == destroys' = [destroys EXCEPT ![id] = @ + 1]

PInit ==
    /\ started = FALSE
    /\ all = {}
    /\ idle = <<>>
    /\ active = 0
    /\ health = [i \in 1..MaxId |-> Fresh]
    /\ nextId = 0
    /\ factoryFailed = FALSE
    /\ cpc = [c \in Callers |-> "idle"]
    /\ held = [c \in Callers |-> 0]
    /\ spc = "idle"
    /\ sh = 0
    /\ pressure = FALSE
    /\ totalSize = 0
    /\ left = 0
    /\ stop = NoStop
    /\ destroys = [i \in 1..MaxId |-> 0]
    /\ sdone = NoScale

\* NewAdaptivePool: k of the MinPages factory calls succeed; the handles made
\* are put on the idle channel and the scaling loop is started.
NewAdaptivePool(k) ==
    /\ ~started
    /\ started' = TRUE
    /\ all' = 1..k
    /\ idle' = [i \in 1..k |-> i]
    /\ nextId' = k
    /\ factoryFailed' = (k < MinPages)
    /\ UNCHANGED <<active, health, cpc, held, spc, sh, pressure, totalSize, left>>
    /\ UNCHANGED <<stop, destroys, sdone>>
    /\ UNCHANGED exceptPool

\* createHandleLocked with a factory call that succeeds: the next id joins all.
CreateOK ==
    /\ nextId < MaxId
    /\ nextId' = nextId + 1
    /\ all' = all \cup {nextId + 1}
    /\ health' = [health EXCEPT ![nextId + 1] = Fresh]
    /\ UNCHANGED factoryFailed

\* createHandleLocked with a factory call that fails.
CreateFails ==
    /\ factoryFailed' = TRUE
    /\ UNCHANGED <<nextId, all, health>>

\* Mutant: Get hands out the head of the idle channel and leaves it there.
GetFastKeep(c) ==
    /\ started
    /\ cpc[c] = "idle"
    /\ idle # <<>>
    /\ held' = [held EXCEPT ![c] = Head(idle)]
    /\ active' = active + 1
    /\ cpc' = [cpc EXCEPT ![c] = "holding"]
    /\ UNCHANGED <<started, all, idle, health, nextId, factoryFailed, spc, sh, pressure,
                   totalSize, left>>
    /\ stop' = Overlapped(stop)
    /\ UNCHANGED <<destroys, sdone>>
    /\ UNCHANGED exceptPool

\* Get, the non-blocking receive finds a handle.
GetFast(c) ==
    /\ started
    /\ cpc[c] = "idle"
    /\ idle # <<>>
    /\ held' = [held EXCEPT ![c] = Head(idle)]
    /\ idle' = Tail(idle)
    /\ active' = active + 1
    /\ cpc' = [cpc EXCEPT ![c] = "holding"]
    /\ UNCHANGED <<started, all, health, nextId, factoryFailed, spc, sh, pressure,
                   totalSize, left>>
    /\ stop' = Overlapped(stop)
    /\ UNCHANGED <<destroys, sdone>>
    /\ UNCHANGED exceptPool

\* Mutant: Get goes for the mutex without looking at the idle channel.
GetMissAlways(c) ==
    /\ started
    /\ cpc[c] = "idle"
    /\ cpc' = [cpc EXCEPT ![c] = "getLock"]
    /\ UNCHANGED <<started, all, idle, active, health, nextId, factoryFailed, held, spc, sh,
                   pressure, totalSize, left>>
    /\ stop' = Overlapped(stop)
    /\ UNCHANGED <<destroys, sdone>>
    /\ UNCHANGED exceptPool

\* Get, the non-blocking receive finds the channel empty.
GetMiss(c) ==
    /\ started
    /\ cpc[c] = "idle"
    /\ idle = <<>>
    /\ cpc' = [cpc EXCEPT ![c] = "getLock"]
    /\ UNCHANGED <<started, all, idle, active, health, nextId, factoryFailed, held, spc, sh,
                   pressure, totalSize, left>>
    /\ stop' = Overlapped(stop)
    /\ UNCHANGED <<destroys, sdone>>
    /\ UNCHANGED exceptPool

\* Get, under the mutex: create a handle when under the hard maximum and return
\* it; go on to the blocking receive otherwise, or when the factory fails.
GetCreate(c, ok) ==
    /\ cpc[c] = "getLock"
    /\ IF UnderHardMax(Cardinality(all)) /\ ok
       THEN /\ CreateOK
            /\ held' = [held EXCEPT ![c] = nextId + 1]
            /\ active' = active + 1
            /\ cpc' = [cpc EXCEPT ![c] = "holding"]
       ELSE /\ IF UnderHardMax(Cardinality(all))
               THEN CreateFails
               ELSE UNCHANGED <<nextId, all, health, factoryFailed>>
            /\ cpc' = [cpc EXCEPT ![c] = "getWait"]
            /\ UNCHANGED <<held, active>>
    /\ UNCHANGED <<started, idle, spc, sh, pressure, totalSize, left>>
    /\ stop' = Overlapped(stop)
    /\ UNCHANGED <<destroys, sdone>>
    /\ UNCHANGED exceptPool

\* Get, the blocking receive h := <-ap.idle returns.
GetWait(c) ==
    /\ cpc[c] = "getWait"
    /\ idle # <<>>
    /\ held' = [held EXCEPT ![c] = Head(idle)]
    /\ idle' = Tail(idle)
    /\ active' = active + 1
    /\ cpc' = [cpc EXCEPT ![c] = "holding"]
    /\ UNCHANGED <<started, all, health, nextId, factoryFailed, spc, sh, pressure,
                   totalSize, left>>
    /\ stop' = Overlapped(stop)
    /\ UNCHANGED <<destroys, sdone>>
    /\ UNCHANGED exceptPool

\* The handle after Put recorded the verdict.
Recorded(h, success) == IF success THEN RecordSuccess(h) ELSE RecordFailure(h)

\* Put: active.Add(-1), the verdict is recorded, ShouldRetire is asked.
PutRecord(c, success, aged) ==
    /\ cpc[c] = "holding"
    /\ health[held[c]].useCount < MaxUses
    /\ active' = active - 1
    /\ health' = [health EXCEPT ![held[c]] = Recorded(@, success)]
    /\ cpc' = [cpc EXCEPT ![c] = IF ShouldRetire(Recorded(health[held[c]], success), aged)
                                 THEN "putDestroy" ELSE "putRequeue"]
    /\ UNCHANGED <<started, all, idle, nextId, factoryFailed, held, spc, sh, pressure,
                   totalSize, left>>
    /\ stop' = Overlapped(stop)
    /\ UNCHANGED <<destroys, sdone>>
    /\ UNCHANGED exceptPool

\* Put of a healthy handle: ap.idle <- h
PutRequeue(c) ==
    /\ cpc[c] = "putRequeue"
    /\ Len(idle) < HardMax
    /\ idle' = Append(idle, held[c])
    /\ held' = [held EXCEPT ![c] = 0]
    /\ cpc' = [cpc EXCEPT ![c] = "idle"]
    /\ UNCHANGED <<started, all, active, health, nextId, factoryFailed, spc, sh, pressure,
                   totalSize, left>>
    /\ stop' = Overlapped(stop)
    /\ UNCHANGED <<destroys, sdone>>
    /\ UNCHANGED exceptPool

\* Put of a handle to retire: ap.destroyHandle(h)
PutDestroy(c) ==
    /\ cpc[c] = "putDestroy"
    /\ all' = all \ {held[c]}
    /\ Destroyer(held[c])
    /\ health' = [health EXCEPT ![held[c]] = Fresh]
    /\ held' = [held EXCEPT ![c] = 0]
    /\ cpc' = [cpc EXCEPT ![c] = "putReplace"]
    /\ UNCHANGED <<started, idle, active, nextId, factoryFailed, spc, sh, pressure,
                   totalSize, left>>
    /\ stop' = Overlapped(stop)
    /\ UNCHANGED sdone
    /\ UNCHANGED exceptPool

\* Put after the destroy, under the mutex: make a replacement when the pool is
\* under its minimum.
PutReplace(c, ok) ==
    /\ cpc[c] = "putReplace"
    /\ IF UnderMinimum(Cardinality(all)) /\ ok
       THEN /\ CreateOK
            /\ held' = [held EXCEPT ![c] = nextId + 1]
            /\ cpc' = [cpc EXCEPT ![c] = "putSend"]
       ELSE /\ IF UnderMinimum(Cardinality(all))
               THEN CreateFails
               ELSE UNCHANGED <<nextId, all, health, factoryFailed>>
            /\ cpc' = [cpc EXCEPT ![c] = "idle"]
            /\ UNCHANGED held
    /\ UNCHANGED <<started, idle, active, spc, sh, pressure, totalSize, left>>
    /\ stop' = Overlapped(stop)
    /\ UNCHANGED <<destroys, sdone>>
    /\ UNCHANGED exceptPool

\* Put: ap.idle <- newH
PutSend(c) ==
    /\ cpc[c] = "putSend"
    /\ Len(idle) < HardMax
    /\ idle' = Append(idle, held[c])
    /\ held' = [held EXCEPT ![c] = 0]
    /\ cpc' = [cpc EXCEPT ![c] = "idle"]
    /\ UNCHANGED <<started, all, active, health, nextId, factoryFailed, spc, sh, pressure,
                   totalSize, left>>
    /\ stop' = Overlapped(stop)
    /\ UNCHANGED <<destroys, sdone>>
    /\ UNCHANGED exceptPool

\* scaleCheck returns.
ScaleReturn ==
    /\ spc' = "idle"
    /\ pressure' = FALSE
    /\ totalSize' = 0
    /\ left' = 0
    /\ sdone' = NoScale

\* scaleCheck: memory is sampled, and len(ap.all) is read under the mutex.
ScaleSample(p) ==
    /\ started
    /\ ~stop.exited
    /\ spc = "idle"
    /\ pressure' = p
    /\ totalSize' = Cardinality(all)
    /\ spc' = "decide"
    /\ UNCHANGED <<started, all, idle, active, health, nextId, factoryFailed, cpc, held, sh,
                   left>>
    /\ UNCHANGED <<stop, destroys, sdone>>
    /\ UNCHANGED exceptPool

\* scaleCheck: ap.active is read and the branch is chosen.
ScaleDecide ==
    /\ spc = "decide"
    /\ IF pressure
       THEN /\ spc' = "shrinkCheck"
            /\ left' = ScaleCount(totalSize)
            /\ sdone' = [sdone EXCEPT !.active = active]
            /\ UNCHANGED <<pressure, totalSize>>
       ELSE IF Busy(active, totalSize)
       THEN /\ spc' = "grow"
            /\ left' = ScaleCount(totalSize)
            /\ sdone' = [sdone EXCEPT !.active = active]
            /\ UNCHANGED <<pressure, totalSize>>
       ELSE ScaleReturn
    /\ UNCHANGED <<started, all, idle, active, health, nextId, factoryFailed, cpc, held, sh>>
    /\ UNCHANGED <<stop, destroys>>
    /\ UNCHANGED exceptPool

\* Shrink loop, under the mutex: stop at the minimum.
ShrinkCheck ==
    /\ spc = "shrinkCheck"
    /\ IF left = 0 \/ AtMinimum(Cardinality(all))
       THEN ScaleReturn
       ELSE spc' = "shrinkTake" /\ UNCHANGED <<pressure, totalSize, left, sdone>>
    /\ UNCHANGED <<started, all, idle, active, health, nextId, factoryFailed, cpc, held, sh>>
    /\ UNCHANGED <<stop, destroys>>
    /\ UNCHANGED exceptPool

\* Shrink loop: select { case h := <-ap.idle: ...; default: return }
ShrinkTake ==
    /\ spc = "shrinkTake"
    /\ IF idle # <<>>
       THEN /\ sh' = Head(idle)
            /\ idle' = Tail(idle)
            /\ spc' = "shrinkDestroy"
            /\ UNCHANGED <<pressure, totalSize, left, sdone>>
       ELSE /\ ScaleReturn
            /\ UNCHANGED <<sh, idle>>
    /\ UNCHANGED <<started, all, active, health, nextId, factoryFailed, cpc, held>>
    /\ UNCHANGED <<stop, destroys>>
    /\ UNCHANGED exceptPool

\* Shrink loop: ap.destroyHandle(h)
ShrinkDestroy ==
    /\ spc = "shrinkDestroy"
    /\ all' = all \ {sh}
    /\ Destroyer(sh)
    /\ sdone' = [sdone EXCEPT !.destroyed = @ + 1]
    /\ health' = [health EXCEPT ![sh] = Fresh]
    /\ sh' = 0
    /\ left' = left - 1
    /\ spc' = "shrinkCheck"
    /\ UNCHANGED <<started, idle, active, nextId, factoryFailed, cpc, held, pressure,
                   totalSize>>
    /\ UNCHANGED stop
    /\ UNCHANGED exceptPool

\* Grow loop, under the mutex: stop at the hard maximum, else create a handle.
Grow(ok) ==
    /\ spc = "grow"
    /\ IF left = 0 \/ AtHardMax(Cardinality(all))
       THEN /\ ScaleReturn
            /\ UNCHANGED <<nextId, all, health, factoryFailed, sh>>
       ELSE IF ok
       THEN /\ CreateOK
            /\ sh' = nextId + 1
            /\ spc' = "growSend"
            /\ sdone' = [sdone EXCEPT !.created = @ + 1]
            /\ UNCHANGED <<pressure, totalSize, left>>
       ELSE /\ CreateFails
            /\ ScaleReturn
            /\ UNCHANGED sh
    /\ UNCHANGED <<started, idle, active, cpc, held>>
    /\ UNCHANGED <<stop, destroys>>
    /\ UNCHANGED exceptPool

\* Grow loop: ap.idle <- h
GrowSend ==
    /\ spc = "growSend"
    /\ Len(idle) < HardMax
    /\ idle' = Append(idle, sh)
    /\ sh' = 0
    /\ left' = left - 1
    /\ spc' = "grow"
    /\ UNCHANGED <<started, all, active, health, nextId, factoryFailed, cpc, held, pressure,
                   totalSize>>
    /\ UNCHANGED <<stop, destroys, sdone>>
    /\ UNCHANGED exceptPool

PNext ==
    \/ \E k \in 0..MinPages : NewAdaptivePool(k)
    \/ \E c \in Clients : GetFast(c)
    \/ \E c \in Clients : GetMiss(c)
    \/ \E c \in Clients, ok \in BOOLEAN : GetCreate(c, ok)
    \/ \E c \in Clients : GetWait(c)
    \/ \E c \in Clients, success \in BOOLEAN, aged \in BOOLEAN : PutRecord(c, success, aged)
    \/ \E c \in Clients : PutRequeue(c)
    \/ \E c \in Clients : PutDestroy(c)
    \/ \E c \in Clients, ok \in BOOLEAN : PutReplace(c, ok)
    \/ \E c \in Clients : PutSend(c)
    \/ \E p \in BOOLEAN : ScaleSample(p)
    \/ ScaleDecide
    \/ ShrinkCheck
    \/ ShrinkTake
    \/ ShrinkDestroy
    \/ \E ok \in BOOLEAN : Grow(ok)
    \/ GrowSend

\* Stop: close(ap.stopped)
StopClose ==
    /\ started
    /\ stop.pc = "idle"
    /\ stop' = [stop EXCEPT !.pc = "drain",
                             !.quiet = \A c \in Clients : cpc[c] \in {"idle", "holding"}]
    /\ UNCHANGED <<started, all, idle, active, health, nextId, factoryFailed, cpc, held, spc,
                   sh, pressure, totalSize, left, destroys, sdone>>
    /\ UNCHANGED exceptPool

\* Stop, drain loop: select { case h := <-ap.idle: ...; default: break drainLoop }
StopDrain ==
    /\ stop.pc = "drain"
    /\ IF idle # <<>>
       THEN /\ stop' = [stop EXCEPT !.pc = "destroy", !.h = Head(idle)]
            /\ idle' = Tail(idle)
       ELSE /\ stop' = [stop EXCEPT !.pc = "lock"]
            /\ UNCHANGED idle
    /\ UNCHANGED <<started, all, active, health, nextId, factoryFailed, cpc, held, spc, sh,
                   pressure, totalSize, left, destroys, sdone>>
    /\ UNCHANGED exceptPool

\* Stop, drain loop: ap.destroyHandle(h)
StopDestroy ==
    /\ stop.pc = "destroy"
    /\ all' = all \ {stop.h}
    /\ Destroyer(stop.h)
    /\ health' = [health EXCEPT ![stop.h] = Fresh]
    /\ stop' = [stop EXCEPT !.pc = "drain", !.h = 0]
    /\ UNCHANGED <<started, idle, active, nextId, factoryFailed, cpc, held, spc, sh, pressure,
                   totalSize, left, sdone>>
    /\ UNCHANGED exceptPool

\* Stop, under the mutex: the destroyer is called for every handle still tracked,
\* and the handle is deleted from ap.all.  Stop returns.
StopAll ==
    /\ stop.pc = "lock"
    /\ destroys' = [i \in 1..MaxId |-> IF i \in all THEN destroys[i] + 1 ELSE destroys[i]]
    /\ all' = {}
    /\ stop' = [stop EXCEPT !.pc = "done"]
    /\ UNCHANGED <<started, idle, active, health, nextId, factoryFailed, cpc, held, spc, sh,
                   pressure, totalSize, left, sdone>>
    /\ UNCHANGED exceptPool

\* scalingLoop: select takes case <-ap.stopped and the loop returns.
LoopExit ==
    /\ stop.pc # "idle"
    /\ ~stop.exited
    /\ spc = "idle"
    /\ stop' = [stop EXCEPT !.exited = TRUE]
    /\ UNCHANGED <<started, all, idle, active, health, nextId, factoryFailed, cpc, held, spc,
                   sh, pressure, totalSize, left, destroys, sdone>>
    /\ UNCHANGED exceptPool

\* The clients that run beside Stop.
StopClients == {"c1"}

StopNext ==
    \/ \E k \in 0..MinPages : NewAdaptivePool(k)
    \/ \E c \in StopClients : GetFast(c)
    \/ \E c \in StopClients : GetMiss(c)
    \/ \E c \in StopClients, ok \in BOOLEAN : GetCreate(c, ok)
    \/ \E c \in StopClients : GetWait(c)
    \/ \E c \in StopClients, success \in BOOLEAN, aged \in BOOLEAN : PutRecord(c, success, aged)
    \/ \E c \in StopClients : PutRequeue(c)
    \/ \E c \in StopClients : PutDestroy(c)
    \/ \E c \in StopClients, ok \in BOOLEAN : PutReplace(c, ok)
    \/ \E c \in StopClients : PutSend(c)
    \/ \E p \in BOOLEAN : ScaleSample(p)
    \/ ScaleDecide
    \/ ShrinkCheck
    \/ ShrinkTake
    \/ ShrinkDestroy
    \/ \E ok \in BOOLEAN : Grow(ok)
    \/ GrowSend
    \/ StopClose
    \/ StopDrain
    \/ StopDestroy
    \/ StopAll
    \/ LoopExit

\* =================================================== browser pipeline
\* scraper/page.go: doScrapeRod on a tab of Scraper.pagePool, and doScrapeWithCDP
\* on a tab of the caller's own browser.  pagePool is the rod library's page
\* pool: a channel of MaxPages slots, Get receives a slot (and opens a tab when
\* the slot is empty), Put sends the tab back.
Scrapes == {"s1", "s2"}

ScrapeRequests ==
    [Stealth : BOOLEAN, WaitForNetworkIdle : BOOLEAN, Actions : BOOLEAN, CDPURL : BOOLEAN]

NoRequest ==
    [Stealth |-> FALSE, WaitForNetworkIdle |-> FALSE, Actions |-> FALSE, CDPURL |-> FALSE]

\* The requests each scrape is run with: every kind for the first, plain pooled
\* ones for the scrape it contends with.
Requests(s) ==
    IF s = "s1" THEN ScrapeRequests
    ELSE {r \in ScrapeRequests : ~r.Stealth /\ ~r.Actions /\ ~r.CDPURL}

NoScrapeRet == "none"

\* No action index: executeActions returned nil or was not called.
NoIndex == -1

RInit ==
    /\ pagePool = [i \in 1..MaxPages |-> 0]
    /\ created = 0
    /\ at = [s \in Scrapes |-> "idle"]
    /\ page = [s \in Scrapes |-> 0]
    /\ sreq = [s \in Scrapes |-> NoRequest]
    /\ ctxErr = [s \in Scrapes |-> FALSE]
    /\ waitIdle = [s \in Scrapes |-> FALSE]
    /\ sret = [s \in Scrapes |-> NoScrapeRet]
    /\ steps = [s \in Scrapes |-> <<>>]
    /\ expiredBlocked = [s \in Scrapes |-> FALSE]
    /\ acted = [s \in Scrapes |-> <<>>]
    /\ failedAt = [s \in Scrapes |-> NoIndex]
    /\ tab = [s \in Scrapes |-> "none"]
    /\ remote = [s \in Scrapes |-> "none"]

\* The browser operation `name` is issued by scrape s.
Issue(s, name) == steps' = [steps EXCEPT ![s] = Append(@, name)]

\* categorizeError on the error of an operation bound to the request context.
categorizeError(done) == IF done THEN "Timeout" ELSE "Navigation"

\* The order of the statements of doScrapeRod between the cleanup defer and
\* the extraction.
NextStepNavigateEarly(pos) ==
    CASE pos = "stealth" -> "navigate"
      [] pos = "navigate" -> "headers"
      [] pos = "headers" -> "cookies"
      [] pos = "cookies" -> "hijack"
      [] pos = "hijack" -> "wait"
      [] pos = "wait" -> "actions"
      [] pos = "actions" -> "extract"

NextStep(pos) ==
    CASE pos = "stealth" -> "headers"
      [] pos = "headers" -> "cookies"
      [] pos = "cookies" -> "hijack"
      [] pos = "hijack" -> "navigate"
      [] pos = "navigate" -> "wait"
      [] pos = "wait" -> "actions"
      [] pos = "actions" -> "extract"

\* Where a return (or a panic) of doScrapeRod goes once the tab is acquired:
\* the deferred cleanup.
DeferredNone == "done"

Deferred == "blank"

\* The context the cleanup navigation runs on: the tab's own (the browser's
\* background context), not the request's.
CleanupOnRequestCtx == "request"

CleanupCtx == "background"

\* doScrapeRod's waitIdle after statement 7: never assigned.
WatcherInstalled(r) == FALSE

\* doScrapeRod's first defer, cancel(): the request context is done once the
\* function has returned.
Cancelled(s) == [ctxErr EXCEPT ![s] = TRUE]

\* A call enters doScrapeRod: timeout guard, then the CDP branch or the pool.
Begin(s, r) ==
    /\ at[s] \in {"idle", "done"}
    /\ at' = [at EXCEPT ![s] = IF r.CDPURL THEN "cdpConnect" ELSE "acquire"]
    /\ sreq' = [sreq EXCEPT ![s] = r]
    /\ ctxErr' = [ctxErr EXCEPT ![s] = FALSE]
    /\ waitIdle' = [waitIdle EXCEPT ![s] = FALSE]
    /\ sret' = [sret EXCEPT ![s] = NoScrapeRet]
    /\ steps' = [steps EXCEPT ![s] = <<>>]
    /\ expiredBlocked' = [expiredBlocked EXCEPT ![s] = FALSE]
    /\ acted' = [acted EXCEPT ![s] = <<>>]
    /\ failedAt' = [failedAt EXCEPT ![s] = NoIndex]
    /\ tab' = [tab EXCEPT ![s] = "none"]
    /\ remote' = [remote EXCEPT ![s] = "none"]
    /\ UNCHANGED <<pagePool, created, page>>
    /\ UNCHANGED exceptPipeline

\* The request context of a running scrape ends: its deadline passes or the
\* caller cancels.
CtxExpire(s) ==
    /\ at[s] \notin {"idle", "done"}
    /\ ~ctxErr[s]
    /\ ctxErr' = [ctxErr EXCEPT ![s] = TRUE]
    /\ expiredBlocked' = [expiredBlocked EXCEPT ![s] = at[s] = "acquire" /\ pagePool = <<>>]
    /\ UNCHANGED <<pagePool, created, at, page, sreq, waitIdle, sret, steps, acted, failedAt>>
    /\ UNCHANGED <<tab, remote>>
    /\ UNCHANGED exceptPipeline

\* s.pagePool.Get(create): blocks until a slot arrives, whatever the state of
\* the request context; an empty slot is filled by create, whose error makes
\* doScrapeRod return BrowserCrash before the cleanup is deferred.  What the
\* library does with the slot of a failed create is not the repository's code:
\* it is either dropped or sent back empty.
PoolGet(s, ok) ==
    /\ at[s] = "acquire"
    /\ pagePool # <<>>
    /\ LET elem == Head(pagePool) IN
        IF elem # 0
        THEN /\ page' = [page EXCEPT ![s] = elem]
             /\ pagePool' = Tail(pagePool)
             /\ at' = [at EXCEPT ![s] = "stealth"]
             /\ UNCHANGED <<created, sret>>
        ELSE IF ok
        THEN /\ created' = created + 1
             /\ page' = [page EXCEPT ![s] = created + 1]
             /\ pagePool' = Tail(pagePool)
             /\ at' = [at EXCEPT ![s] = "stealth"]
             /\ UNCHANGED sret
        ELSE /\ pagePool' \in {Tail(pagePool), Append(Tail(pagePool), 0)}
             /\ sret' = [sret EXCEPT ![s] = "BrowserCrash"]
             /\ at' = [at EXCEPT ![s] = "done"]
             /\ UNCHANGED <<created, page>>
    /\ ctxErr' = IF at'[s] = "done" THEN Cancelled(s) ELSE ctxErr
    /\ UNCHANGED <<sreq, waitIdle, steps, expiredBlocked, acted, failedAt>>
    /\ UNCHANGED <<tab, remote>>
    /\ UNCHANGED exceptPipeline

\* Statement 4: page.EvalOnNewDocument(stealth.JS) when req.Stealth; its error
\* is only logged.
Stealth(s) ==
    /\ at[s] = "stealth"
    /\ IF sreq[s].Stealth THEN Issue(s, "EvalOnNewDocument") ELSE UNCHANGED steps
    /\ at' = [at EXCEPT ![s] = NextStep("stealth")]
    /\ UNCHANGED <<pagePool, created, page, sreq, ctxErr, waitIdle, sret, expiredBlocked, acted, failedAt>>
    /\ UNCHANGED <<tab, remote>>
    /\ UNCHANGED exceptPipeline

\* Statement 4b: NetworkSetExtraHTTPHeaders on the tab (the Referer header is
\* always there); the error is dropped.
Headers(s) ==
    /\ at[s] = "headers"
    /\ Issue(s, "SetExtraHTTPHeaders")
    /\ at' = [at EXCEPT ![s] = NextStep("headers")]
    /\ UNCHANGED <<pagePool, created, page, sreq, ctxErr, waitIdle, sret, expiredBlocked, acted, failedAt>>
    /\ UNCHANGED <<tab, remote>>
    /\ UNCHANGED exceptPipeline

\* Statement 4c: NetworkSetCookie on the tab for the request's cookies; errors
\* are dropped.
Cookies(s) ==
    /\ at[s] = "cookies"
    /\ Issue(s, "SetCookie")
    /\ at' = [at EXCEPT ![s] = NextStep("cookies")]
    /\ UNCHANGED <<pagePool, created, page, sreq, ctxErr, waitIdle, sret, expiredBlocked, acted, failedAt>>
    /\ UNCHANGED <<tab, remote>>
    /\ UNCHANGED exceptPipeline

\* Statements 5 to 7: setupHijack mounts the router, the request context is
\* bound to the tab (p), and waitIdle is declared.
Hijack(s) ==
    /\ at[s] = "hijack"
    /\ Issue(s, "HijackRequests")
    /\ waitIdle' = [waitIdle EXCEPT ![s] = WatcherInstalled(sreq[s])]
    /\ at' = [at EXCEPT ![s] = NextStep("hijack")]
    /\ UNCHANGED <<pagePool, created, page, sreq, ctxErr, sret, expiredBlocked, acted, failedAt>>
    /\ UNCHANGED <<tab, remote>>
    /\ UNCHANGED exceptPipeline

\* Statement 8: p.Navigate(req.URL); an error (always one when the request
\* context is done) is categorized and returned.
Navigate(s, ok) ==
    /\ at[s] = "navigate"
    /\ Issue(s, "Navigate")
    /\ IF ok /\ ~ctxErr[s]
       THEN /\ at' = [at EXCEPT ![s] = NextStep("navigate")]
            /\ UNCHANGED sret
       ELSE /\ at' = [at EXCEPT ![s] = Deferred]
            /\ sret' = [sret EXCEPT ![s] = categorizeError(ctxErr[s])]
    /\ UNCHANGED <<pagePool, created, page, sreq, ctxErr, waitIdle, expiredBlocked, acted, failedAt>>
    /\ UNCHANGED <<tab, remote>>
    /\ UNCHANGED exceptPipeline

\* Statements 9 to 9c: waitIdle() when a watcher is installed, p.WaitDOMStable
\* otherwise (its error is only logged); the status evaluation and the overlay
\* removal that follow are best effort and leave the control flow alone.
Wait(s) ==
    /\ at[s] = "wait"
    /\ Issue(s, IF waitIdle[s] THEN "waitIdle" ELSE "WaitDOMStable")
    /\ at' = [at EXCEPT ![s] = NextStep("wait")]
    /\ UNCHANGED <<pagePool, created, page, sreq, ctxErr, waitIdle, sret, expiredBlocked, acted, failedAt>>
    /\ UNCHANGED <<tab, remote>>
    /\ UNCHANGED exceptPipeline

\* The index the ActionFailed error of executeActions names when the action at
\* index i fails.
FailedIndexCompleted(i) == i + 1

FailedIndex(i) == i

\* Statement 9d: executeActions when the request has actions, one iteration of
\* its loop: the action at the next index runs (a "scrape" marker succeeds even
\* on a context that is done); the first failing action makes executeActions,
\* and doScrapeRod, return ActionFailed for that index.
Actions(s, ok) ==
    /\ at[s] = "actions"
    /\ IF sreq[s].Actions
       THEN LET i == Len(acted[s]) IN
            /\ IF i = 0 THEN Issue(s, "executeActions") ELSE UNCHANGED steps
            /\ acted' = [acted EXCEPT ![s] = Append(@, i)]
            /\ IF ok
               THEN /\ at' = [at EXCEPT ![s] =
                                IF i + 1 = NumActions THEN NextStep("actions") ELSE "actions"]
                    /\ UNCHANGED <<sret, failedAt>>
               ELSE /\ at' = [at EXCEPT ![s] = Deferred]
                    /\ sret' = [sret EXCEPT ![s] = "ActionFailed"]
                    /\ failedAt' = [failedAt EXCEPT ![s] = FailedIndex(i)]
       ELSE /\ at' = [at EXCEPT ![s] = NextStep("actions")]
            /\ UNCHANGED <<steps, sret, acted, failedAt>>
    /\ UNCHANGED <<pagePool, created, page, sreq, ctxErr, waitIdle, expiredBlocked>>
    /\ UNCHANGED <<tab, remote>>
    /\ UNCHANGED exceptPipeline

\* Statements 10 and 11: p.HTML(); an error is categorized and returned,
\* otherwise the result is returned.
Extract(s, ok) ==
    /\ at[s] = "extract"
    /\ Issue(s, "HTML")
    /\ at' = [at EXCEPT ![s] = Deferred]
    /\ sret' = [sret EXCEPT ![s] = IF ok /\ ~ctxErr[s] THEN "ok" ELSE categorizeError(ctxErr[s])]
    /\ UNCHANGED <<pagePool, created, page, sreq, ctxErr, waitIdle, expiredBlocked, acted, failedAt>>
    /\ UNCHANGED <<tab, remote>>
    /\ UNCHANGED exceptPipeline

\* A panic in any statement after the cleanup is deferred unwinds through the
\* defers.
Panic(s) ==
    /\ at[s] \in {"stealth", "headers", "cookies", "hijack", "navigate", "wait", "actions",
                  "extract"}
    /\ at' = [at EXCEPT ![s] = Deferred]
    /\ sret' = [sret EXCEPT ![s] = "panic"]
    /\ UNCHANGED <<pagePool, created, page, sreq, ctxErr, waitIdle, steps, expiredBlocked, acted, failedAt>>
    /\ UNCHANGED <<tab, remote>>
    /\ UNCHANGED exceptPipeline

\* The deferred cleanup, first half (after router.Stop when the router was
\* mounted): page.Navigate("about:blank") on the original tab reference.  A
\* navigation on a context that is done is refused.
CleanupBlank(s) ==
    /\ at[s] = "blank"
    /\ Issue(s, IF CleanupCtx = "request" /\ ctxErr[s] THEN "refused" ELSE "about:blank")
    /\ at' = [at EXCEPT ![s] = "put"]
    /\ UNCHANGED <<pagePool, created, page, sreq, ctxErr, waitIdle, sret, expiredBlocked, acted, failedAt>>
    /\ UNCHANGED <<tab, remote>>
    /\ UNCHANGED exceptPipeline

\* The deferred cleanup, second half: s.pagePool.Put(page); doScrapeRod returns.
PoolPut(s) ==
    /\ at[s] = "put"
    /\ Len(pagePool) < MaxPages
    /\ pagePool' = Append(pagePool, page[s])
    /\ page' = [page EXCEPT ![s] = 0]
    /\ Issue(s, "Put")
    /\ at' = [at EXCEPT ![s] = "done"]
    /\ ctxErr' = Cancelled(s)
    /\ UNCHANGED <<created, sreq, waitIdle, sret, expiredBlocked, acted, failedAt>>
    /\ UNCHANGED <<tab, remote>>
    /\ UNCHANGED exceptPipeline

\* doScrapeWithCDP: browser.Connect to the caller's endpoint (an error returns
\* BrowserCrash at once), defer browser.Close(), then browser.Page opens the
\* one-shot tab (an error returns BrowserCrash through that defer) and its
\* page.Close is deferred.
CDPConnect(s, k) ==
    /\ at[s] = "cdpConnect"
    /\ k \in {"connected", "noConnect", "noPage"}
    /\ Issue(s, IF k = "noConnect" THEN "Connect failed" ELSE "Connect")
    /\ at' = [at EXCEPT ![s] = CASE k = "connected" -> "cdpNavigate"
                                 [] k = "noPage" -> "cdpDisconnect"
                                 [] k = "noConnect" -> "done"]
    /\ tab' = [tab EXCEPT ![s] = IF k = "connected" THEN "open" ELSE @]
    /\ sret' = [sret EXCEPT ![s] = IF k = "connected" THEN @ ELSE "BrowserCrash"]
    /\ ctxErr' = IF k = "noConnect" THEN Cancelled(s) ELSE ctxErr
    /\ UNCHANGED <<pagePool, created, page, sreq, waitIdle, expiredBlocked, acted, failedAt>>
    /\ UNCHANGED remote
    /\ UNCHANGED exceptPipeline

\* doScrapeWithCDP: p.Navigate(req.URL).
CDPNavigate(s, ok) ==
    /\ at[s] = "cdpNavigate"
    /\ Issue(s, "Navigate")
    /\ IF ok /\ ~ctxErr[s]
       THEN /\ at' = [at EXCEPT ![s] = "cdpWait"]
            /\ UNCHANGED sret
       ELSE /\ at' = [at EXCEPT ![s] = "cdpClose"]
            /\ sret' = [sret EXCEPT ![s] = categorizeError(ctxErr[s])]
    /\ UNCHANGED <<pagePool, created, page, sreq, ctxErr, waitIdle, expiredBlocked, acted, failedAt>>
    /\ UNCHANGED <<tab, remote>>
    /\ UNCHANGED exceptPipeline

\* doScrapeWithCDP: the watcher is installed by p.WaitRequestIdle and waited on
\* at once when req.WaitForNetworkIdle, else p.WaitDOMStable.
CDPWait(s) ==
    /\ at[s] = "cdpWait"
    /\ IF sreq[s].WaitForNetworkIdle
       THEN /\ steps' = [steps EXCEPT ![s] = @ \o <<"WaitRequestIdle", "waitIdle">>]
            /\ waitIdle' = [waitIdle EXCEPT ![s] = TRUE]
       ELSE /\ Issue(s, "WaitDOMStable")
            /\ UNCHANGED waitIdle
    /\ at' = [at EXCEPT ![s] = "cdpFinish"]
    /\ UNCHANGED <<pagePool, created, page, sreq, ctxErr, sret, expiredBlocked, acted, failedAt>>
    /\ UNCHANGED <<tab, remote>>
    /\ UNCHANGED exceptPipeline

\* doScrapeWithCDP: the actions, then the extraction.
CDPFinish(s, actionsOK, htmlOK) ==
    /\ at[s] = "cdpFinish"
    /\ LET failed == sreq[s].Actions /\ ~actionsOK
           ran == IF sreq[s].Actions THEN <<"executeActions">> ELSE <<>>
       IN  /\ steps' = [steps EXCEPT ![s] = @ \o ran \o (IF failed THEN <<>> ELSE <<"HTML">>)]
           /\ sret' = [sret EXCEPT ![s] =
                         IF failed THEN "ActionFailed"
                         ELSE IF htmlOK /\ ~ctxErr[s] THEN "ok"
                         ELSE categorizeError(ctxErr[s])]
    /\ at' = [at EXCEPT ![s] = "cdpClose"]
    /\ UNCHANGED <<pagePool, created, page, sreq, ctxErr, waitIdle, expiredBlocked, acted, failedAt>>
    /\ UNCHANGED <<tab, remote>>
    /\ UNCHANGED exceptPipeline

\* doScrapeWithCDP's last defer, run first: page.Close() on the one-shot tab.
CDPClose(s) ==
    /\ at[s] = "cdpClose"
    /\ Issue(s, "page.Close")
    /\ tab' = [tab EXCEPT ![s] = "closed"]
    /\ at' = [at EXCEPT ![s] = "cdpDisconnect"]
    /\ UNCHANGED <<pagePool, created, page, sreq, ctxErr, waitIdle, sret, expiredBlocked,
                   acted, failedAt>>
    /\ UNCHANGED remote
    /\ UNCHANGED exceptPipeline

\* What Browser.Close does to the browser it is called on: Scraper.Close uses
\* the same call (MustClose) on its own browser to kill the browser process.
BrowserClose == "terminated"

\* doScrapeWithCDP's first defer, run last: browser.Close() on the caller's
\* browser; doScrapeWithCDP and doScrapeRod return.
CDPDisconnect(s) ==
    /\ at[s] = "cdpDisconnect"
    /\ Issue(s, "browser.Close")
    /\ remote' = [remote EXCEPT ![s] = BrowserClose]
    /\ at' = [at EXCEPT ![s] = "done"]
    /\ ctxErr' = Cancelled(s)
    /\ UNCHANGED <<pagePool, created, page, sreq, waitIdle, sret, expiredBlocked, acted,
                   failedAt, tab>>
    /\ UNCHANGED exceptPipeline

RNext ==
    \/ \E s \in Scrapes : \E r \in Requests(s) : Begin(s, r)
    \/ \E s \in Scrapes : CtxExpire(s)
    \/ \E s \in Scrapes, ok \in BOOLEAN : PoolGet(s, ok)
    \/ \E s \in Scrapes : Stealth(s)
    \/ \E s \in Scrapes : Headers(s)
    \/ \E s \in Scrapes : Cookies(s)
    \/ \E s \in Scrapes : Hijack(s)
    \/ \E s \in Scrapes, ok \in BOOLEAN : Navigate(s, ok)
    \/ \E s \in Scrapes : Wait(s)
    \/ \E s \in Scrapes, ok \in BOOLEAN : Actions(s, ok)
    \/ \E s \in Scrapes, ok \in BOOLEAN : Extract(s, ok)
    \/ \E s \in Scrapes : Panic(s)
    \/ \E s \in Scrapes : CleanupBlank(s)
    \/ \E s \in Scrapes : PoolPut(s)
    \/ \E s \in Scrapes, k \in {"connected", "noConnect", "noPage"} : CDPConnect(s, k)
    \/ \E s \in Scrapes, ok \in BOOLEAN : CDPNavigate(s, ok)
    \/ \E s \in Scrapes : CDPWait(s)
    \/ \E s \in Scrapes, a \in BOOLEAN, h \in BOOLEAN : CDPFinish(s, a, h)
    \/ \E s \in Scrapes : CDPClose(s)
    \/ \E s \in Scrapes : CDPDisconnect(s)

\* =================================================== response cache
\* cache/cache.go.  Time is in scaled milliseconds; a time.Duration is a signed
\* integer of DurBits bits counting units of which NsPerMs make a millisecond
\* (64 bits and 1000000 in the program).
Keys == {"k1", "k2", "k3"}

\* ScrapeResponse objects: the cache stores pointers to them.
Resps == {1, 2}

\* maxAgeMs arguments of Get, the largest beyond what a Duration can hold.
MaxAges == {0, 2, 3, 4}

\* Concurrent calls of the Scrape handler.
Handlers == {"q1", "q2"}
NoHandlerReq == [key |-> "", MaxAge |-> 0]
NoBody == "none"

NoCacheEntry == [response |-> 0, createdAt |-> -1]
NoSet == [key |-> "", response |-> 0, at |-> -1, size |-> 0]
NoGot == [returned |-> FALSE, key |-> "", maxAgeMs |-> 0, hit |-> FALSE, response |-> 0]

cacheVars == <<cnow, cstore, swpc, sweepLeft, cutoff, sweepDeletes, lastSet, got>>
handlerVars == <<cacheStatus, hpos, hreq, hobj, hout, served, wrote>>

\* The keys that have an entry in store st.
Present(st) == {k \in Keys : st[k] # NoCacheEntry}

\* Signed integer arithmetic of DurBits bits.
Wrap(x) ==
    LET m == x % (2 ^ DurBits) IN IF m >= 2 ^ (DurBits - 1) THEN m - 2 ^ DurBits ELSE m

\* time.Duration(maxAgeMs) * time.Millisecond
Duration(maxAgeMs) == Wrap(maxAgeMs * NsPerMs)

\* time.Since(t) at time tnow
Since(t, tnow) == (tnow - t) * NsPerMs

\* Cache.Get on store st at time tnow: a miss without any lookup for
\* maxAgeMs <= 0, a miss for an absent entry or one older than maxAge.
CacheGetAnyAge(st, k, maxAgeMs, tnow) ==
    IF maxAgeMs <= 0 THEN [hit |-> FALSE, response |-> 0]
    ELSE IF st[k] = NoCacheEntry THEN [hit |-> FALSE, response |-> 0]
    ELSE [hit |-> TRUE, response |-> st[k].response]

CacheGet(st, k, maxAgeMs, tnow) ==
    IF maxAgeMs <= 0 THEN [hit |-> FALSE, response |-> 0]
    ELSE IF st[k] = NoCacheEntry THEN [hit |-> FALSE, response |-> 0]
    ELSE IF Since(st[k].createdAt, tnow) > Duration(maxAgeMs) THEN [hit |-> FALSE, response |-> 0]
    ELSE [hit |-> TRUE, response |-> st[k].response]

\* Cache.Set's capacity test.
OverCapacity(st) == Cardinality(Present(st)) > maxEntries

AtCapacity(st) == Cardinality(Present(st)) >= maxEntries

\* The stores Cache.Set(k, v) at time tnow can leave: at capacity the first
\* entry a walk of the map meets (any one) is deleted, then k is stored.
CacheSet(st, k, v, tnow) ==
    LET new == [response |-> v, createdAt |-> tnow] IN
    IF AtCapacity(st) /\ Present(st) # {}
    THEN {[[st EXCEPT ![x] = NoCacheEntry] EXCEPT ![k] = new] : x \in Present(st)}
    ELSE {[st EXCEPT ![k] = new]}

CInit ==
    /\ cnow = 0
    /\ cstore = [k \in Keys |-> NoCacheEntry]
    /\ swpc = "idle"
    /\ sweepLeft = {}
    /\ cutoff = 0
    /\ sweepDeletes = 0
    /\ lastSet = NoSet
    /\ got = NoGot
    /\ cacheStatus = [o \in Resps |-> ""]
    /\ hpos = [q \in Handlers |-> "idle"]
    /\ hreq = [q \in Handlers |-> NoHandlerReq]
    /\ hobj = [q \in Handlers |-> 0]
    /\ hout = [q \in Handlers |-> NoBody]
    /\ served = [q \in Handlers |-> ""]
    /\ wrote = [q \in Handlers |-> FALSE]

\* A scaled millisecond passes.
CTick ==
    /\ cnow < MaxCacheClock
    /\ cnow' = cnow + 1
    /\ got' = NoGot
    /\ UNCHANGED <<cstore, swpc, sweepLeft, cutoff, sweepDeletes, lastSet>>
    /\ UNCHANGED handlerVars
    /\ UNCHANGED exceptCache

\* A caller's Cache.Set(k, v), under c.mu.
CSet(k, v) ==
    /\ swpc = "idle"
    /\ cstore' \in CacheSet(cstore, k, v, cnow)
    /\ lastSet' = [key |-> k, response |-> v, at |-> cnow,
                   size |-> Cardinality(Present(cstore))]
    /\ got' = NoGot
    /\ UNCHANGED <<cnow, swpc, sweepLeft, cutoff, sweepDeletes>>
    /\ UNCHANGED handlerVars
    /\ UNCHANGED exceptCache

\* A caller's Cache.Get(k, maxAgeMs): the read lock is taken only for
\* maxAgeMs > 0 and waits for the sweeper to unlock.
CGet(k, maxAgeMs) ==
    /\ maxAgeMs > 0 => swpc = "idle"
    /\ LET r == CacheGet(cstore, k, maxAgeMs, cnow) IN
        got' = [returned |-> TRUE, key |-> k, maxAgeMs |-> maxAgeMs, hit |-> r.hit,
                response |-> r.response]
    /\ UNCHANGED <<cnow, cstore, swpc, sweepLeft, cutoff, sweepDeletes, lastSet>>
    /\ UNCHANGED handlerVars
    /\ UNCHANGED exceptCache

\* cleanupLoop, a tick of its ticker: the cutoff is one hour back, c.mu is
\* locked and the walk of the store begins.
SweepLock ==
    /\ swpc = "idle"
    /\ cutoff' = cnow - SweepAge
    /\ swpc' = "locked"
    /\ sweepLeft' = Present(cstore)
    /\ sweepDeletes' = 0
    /\ got' = NoGot
    /\ UNCHANGED <<cnow, cstore, lastSet>>
    /\ UNCHANGED handlerVars
    /\ UNCHANGED exceptCache

\* cleanupLoop, one iteration of the walk: the entry is deleted when it was
\* created before the cutoff.  c.mu stays locked.
SweepVisit(k) ==
    /\ swpc = "locked"
    /\ k \in sweepLeft
    /\ sweepLeft' = sweepLeft \ {k}
    /\ IF cstore[k].createdAt < cutoff
       THEN /\ cstore' = [cstore EXCEPT ![k] = NoCacheEntry]
            /\ sweepDeletes' = sweepDeletes + 1
       ELSE UNCHANGED <<cstore, sweepDeletes>>
    /\ got' = NoGot
    /\ UNCHANGED <<cnow, swpc, cutoff, lastSet>>
    /\ UNCHANGED handlerVars
    /\ UNCHANGED exceptCache

\* cleanupLoop, the walk is over: c.mu.Unlock().
SweepUnlock ==
    /\ swpc = "locked"
    /\ sweepLeft = {}
    /\ swpc' = "idle"
    /\ sweepDeletes' = 0
    /\ cutoff' = 0
    /\ got' = NoGot
    /\ UNCHANGED <<cnow, cstore, sweepLeft, lastSet>>
    /\ UNCHANGED handlerVars
    /\ UNCHANGED exceptCache

CacheNext ==
    \/ CTick
    \/ \E k \in Keys, v \in Resps : CSet(k, v)
    \/ \E k \in Keys, m \in MaxAges : CGet(k, m)
    \/ SweepLock
    \/ \E k \in Keys : SweepVisit(k)
    \/ SweepUnlock

\* =================================================== The /scrape handler
\* Each handler goroutine serves one JSON request: cache lookup, DoScrape,
\* Clean, cache store, response.  The cache holds pointers: a cached response
\* is the object the storing request serialises.

HandlerKeys == {"k1", "k2"}
HandlerMaxAges == {0, 1, 3}
HandlerRequests == [key : HandlerKeys, MaxAge : HandlerMaxAges]

\* The *ScrapeResponse that cl.Clean allocates for handler q.
NewResponse(q) == IF q = "q1" THEN 1 ELSE 2

cacheOnly == <<cnow, swpc, sweepLeft, cutoff, sweepDeletes, lastSet, got>>

\* The request is bound and defaulted.
HBegin(q, r) ==
    /\ hpos[q] = "idle"
    /\ hreq' = [hreq EXCEPT ![q] = r]
    /\ hpos' = [hpos EXCEPT ![q] = "lookup"]
    /\ UNCHANGED <<cstore, cacheStatus, hobj, hout, served, wrote>>
    /\ UNCHANGED cacheOnly
    /\ UNCHANGED exceptCache

\* 1b. cc.Get for MaxAge > 0; on a hit the handler holds the cached object.
HLookup(q) ==
    /\ hpos[q] = "lookup"
    /\ hreq[q].MaxAge > 0 => swpc = "idle"
    /\ LET r == CacheGet(cstore, hreq[q].key, hreq[q].MaxAge, cnow) IN
        IF hreq[q].MaxAge > 0 /\ r.hit
        THEN /\ hobj' = [hobj EXCEPT ![q] = r.response]
             /\ hpos' = [hpos EXCEPT ![q] = "markHit"]
        ELSE /\ hpos' = [hpos EXCEPT ![q] = "scrape"]
             /\ UNCHANGED hobj
    /\ UNCHANGED <<cstore, cacheStatus, hreq, hout, served, wrote>>
    /\ UNCHANGED cacheOnly
    /\ UNCHANGED exceptCache

\* cached.CacheStatus = "hit"
HMarkHit(q) ==
    /\ hpos[q] = "markHit"
    /\ cacheStatus' = [cacheStatus EXCEPT ![hobj[q]] = "hit"]
    /\ hpos' = [hpos EXCEPT ![q] = "respondHit"]
    /\ UNCHANGED <<cstore, hreq, hobj, hout, served, wrote>>
    /\ UNCHANGED cacheOnly
    /\ UNCHANGED exceptCache

\* c.JSON(200, cached): the object is serialised as it is now.
HRespondHit(q) ==
    /\ hpos[q] = "respondHit"
    /\ hout' = [hout EXCEPT ![q] = cacheStatus[hobj[q]]]
    /\ served' = [served EXCEPT ![q] = "cache"]
    /\ hpos' = [hpos EXCEPT ![q] = "done"]
    /\ UNCHANGED <<cstore, cacheStatus, hreq, hobj, wrote>>
    /\ UNCHANGED cacheOnly
    /\ UNCHANGED exceptCache

\* Where the handler goes after sc.DoScrape and after cl.Clean: on an error
\* it responds and returns.
AfterStepAlwaysOn(ok, next) == next

AfterStep(ok, next) == IF ok THEN next ELSE "done"

\* respondError's body, or nothing yet.
Responded(q, ok) ==
    /\ hout' = [hout EXCEPT ![q] = IF ok THEN @ ELSE "error"]
    /\ served' = [served EXCEPT ![q] = IF ok THEN @ ELSE "error"]

\* 2. sc.DoScrape returns a result or an error.
HScrape(q, ok) ==
    /\ hpos[q] = "scrape"
    /\ hpos' = [hpos EXCEPT ![q] = AfterStep(ok, "clean")]
    /\ Responded(q, ok)
    /\ UNCHANGED <<cstore, cacheStatus, hreq, hobj, wrote>>
    /\ UNCHANGED cacheOnly
    /\ UNCHANGED exceptCache

\* 3. cl.Clean returns a new response object or an error.
HClean(q, ok) ==
    /\ hpos[q] = "clean"
    /\ hpos' = [hpos EXCEPT ![q] = AfterStep(ok, "store")]
    /\ Responded(q, ok)
    /\ hobj' = [hobj EXCEPT ![q] = IF ok THEN NewResponse(q) ELSE @]
    /\ UNCHANGED <<cstore, cacheStatus, hreq, wrote>>
    /\ UNCHANGED cacheOnly
    /\ UNCHANGED exceptCache

\* 6. cc.Set(cacheKey, resp) for MaxAge > 0.
HStore(q) ==
    /\ hpos[q] = "store"
    /\ IF hreq[q].MaxAge > 0
       THEN /\ swpc = "idle"
            /\ cstore' \in CacheSet(cstore, hreq[q].key, hobj[q], cnow)
            /\ wrote' = [wrote EXCEPT ![q] = TRUE]
            /\ hpos' = [hpos EXCEPT ![q] = "markMiss"]
       ELSE /\ hpos' = [hpos EXCEPT ![q] = "respond"]
            /\ UNCHANGED <<cstore, wrote>>
    /\ UNCHANGED <<cacheStatus, hreq, hobj, hout, served>>
    /\ UNCHANGED cacheOnly
    /\ UNCHANGED exceptCache

\* resp.CacheStatus = "miss", after the Set.
HMarkMiss(q) ==
    /\ hpos[q] = "markMiss"
    /\ cacheStatus' = [cacheStatus EXCEPT ![hobj[q]] = "miss"]
    /\ hpos' = [hpos EXCEPT ![q] = "respond"]
    /\ UNCHANGED <<cstore, hreq, hobj, hout, served, wrote>>
    /\ UNCHANGED cacheOnly
    /\ UNCHANGED exceptCache

\* c.JSON(200, resp): the object is serialised as it is now.
HRespond(q) ==
    /\ hpos[q] = "respond"
    /\ hout' = [hout EXCEPT ![q] = cacheStatus[hobj[q]]]
    /\ served' = [served EXCEPT ![q] = "scrape"]
    /\ hpos' = [hpos EXCEPT ![q] = "done"]
    /\ UNCHANGED <<cstore, cacheStatus, hreq, hobj, wrote>>
    /\ UNCHANGED cacheOnly
    /\ UNCHANGED exceptCache

HandlerNext ==
    \/ \E q \in Handlers, r \in HandlerRequests : HBegin(q, r)
    \/ \E q \in Handlers : HLookup(q)
    \/ \E q \in Handlers : HMarkHit(q)
    \/ \E q \in Handlers : HRespondHit(q)
    \/ \E q \in Handlers, ok \in BOOLEAN : HScrape(q, ok)
    \/ \E q \in Handlers, ok \in BOOLEAN : HClean(q, ok)
    \/ \E q \in Handlers : HStore(q)
    \/ \E q \in Handlers : HMarkMiss(q)
    \/ \E q \in Handlers : HRespond(q)
    \/ CTick
    \/ SweepLock
    \/ \E k \in Keys : SweepVisit(k)
    \/ SweepUnlock

\* =================================================== Domain Memory as a store
\* DomainMemory used on its own: callers Set, Get and Delete while the hourly
\* cleanupLoop runs.  store is a sync.Map: each Load, Store and Delete is
\* atomic, a Get and a cleanup walk are several of them.

MemEngines == {"http", "rod"}
NoMemOp == [kind |-> "none", engine |-> "", at |-> 0, raced |-> FALSE]
NoMemGot == [returned |-> FALSE, host |-> "", engine |-> "", overlapped |-> FALSE]
NoMemGet == [pc |-> "idle", host |-> "", overlapped |-> FALSE]
NoSweep == [pc |-> "idle", t |-> 0, left |-> {}, key |-> ""]

dispatcherOnly == <<pc, calls, req, callStart, callerCancelled, deadline, memEngine,
                    memOutcome, raceStart, raceCancelled, cause, pending, tpc, outcome,
                    results, closed, lastErr, dret, rpc, fallback, rodDeadline, fret,
                    startStore, collected, memSets, stepLate>>

MInit ==
    /\ mlast = [d \in Hosts |-> NoMemOp]
    /\ mgot = NoMemGot
    /\ mget = NoMemGet
    /\ msweep = NoSweep

\* A Get or the cleanup walk has seen d's entry expired and has not yet
\* deleted it.
DeletePending(d) ==
    \/ mget.pc = "expired" /\ mget.host = d
    \/ msweep.pc = "deleting" /\ msweep.key = d

\* The Get in progress, after a Set or Delete of d by someone else.
Overlap(d) ==
    IF mget.pc = "expired" /\ mget.host = d THEN [mget EXCEPT !.overlapped = TRUE] ELSE mget

MTick ==
    /\ now < MaxClock
    /\ now' = now + 1
    /\ mgot' = NoMemGot
    /\ UNCHANGED <<store, mlast, mget, msweep>>
    /\ UNCHANGED dispatcherOnly
    /\ UNCHANGED exceptMemory

\* DomainMemory.Set(d, e): one Store.
MSet(d, e) ==
    /\ store' = MemSet(store, d, e, now)
    /\ mlast' = [mlast EXCEPT ![d] = [kind |-> "set", engine |-> e, at |-> now,
                                      raced |-> DeletePending(d)]]
    /\ mget' = Overlap(d)
    /\ mgot' = NoMemGot
    /\ UNCHANGED <<now, msweep>>
    /\ UNCHANGED dispatcherOnly
    /\ UNCHANGED exceptMemory

\* DomainMemory.Delete(d): one Delete.
MDelete(d) ==
    /\ store' = MemDelete(store, d)
    /\ mlast' = [mlast EXCEPT ![d] = [kind |-> "delete", engine |-> "", at |-> now,
                                      raced |-> FALSE]]
    /\ mget' = Overlap(d)
    /\ mgot' = NoMemGot
    /\ UNCHANGED <<now, msweep>>
    /\ UNCHANGED dispatcherOnly
    /\ UNCHANGED exceptMemory

\* DomainMemory.Get(d), the Load and the comparison with time.Now(): it
\* returns "" for no entry and the name for a live one, and goes on to the
\* Delete for an expired one.
MGetLoad(d) ==
    /\ mget.pc = "idle"
    /\ IF store[d] # NoEntry /\ now > store[d].expiresAt
       THEN /\ mget' = [pc |-> "expired", host |-> d, overlapped |-> FALSE]
            /\ mgot' = NoMemGot
       ELSE /\ mgot' = [returned |-> TRUE, host |-> d, engine |-> MemGet(store, d, now),
                        overlapped |-> FALSE]
            /\ UNCHANGED mget
    /\ UNCHANGED <<now, store, mlast, msweep>>
    /\ UNCHANGED dispatcherOnly
    /\ UNCHANGED exceptMemory

\* DomainMemory.Get, for an expired entry: dm.store.Delete(domain), whatever
\* the map holds for the domain by now, and return "".
MGetDelete ==
    /\ mget.pc = "expired"
    /\ store' = MemDelete(store, mget.host)
    /\ mgot' = [returned |-> TRUE, host |-> mget.host, engine |-> "",
                overlapped |-> mget.overlapped]
    /\ mget' = NoMemGet
    /\ UNCHANGED <<now, mlast, msweep>>
    /\ UNCHANGED dispatcherOnly
    /\ UNCHANGED exceptMemory

\* cleanupLoop, a tick of its ticker: now is read and the Range begins.
MSweepStart ==
    /\ msweep.pc = "idle"
    /\ msweep' = [pc |-> "walking", t |-> now, left |-> {d \in Hosts : store[d] # NoEntry},
                  key |-> ""]
    /\ mgot' = NoMemGot
    /\ UNCHANGED <<now, store, mlast, mget>>
    /\ UNCHANGED dispatcherOnly
    /\ UNCHANGED exceptMemory

\* cleanupLoop, the Range callback on d's entry as the map holds it now.
MSweepVisit(d) ==
    /\ msweep.pc = "walking"
    /\ d \in msweep.left
    /\ IF store[d] # NoEntry /\ msweep.t > store[d].expiresAt
       THEN msweep' = [msweep EXCEPT !.pc = "deleting", !.left = @ \ {d}, !.key = d]
       ELSE msweep' = [msweep EXCEPT !.left = @ \ {d}]
    /\ mgot' = NoMemGot
    /\ UNCHANGED <<now, store, mlast, mget>>
    /\ UNCHANGED dispatcherOnly
    /\ UNCHANGED exceptMemory

\* cleanupLoop, dm.store.Delete(key) in the callback.
MSweepDelete ==
    /\ msweep.pc = "deleting"
    /\ store' = MemDelete(store, msweep.key)
    /\ msweep' = [msweep EXCEPT !.pc = "walking", !.key = ""]
    /\ mgot' = NoMemGot
    /\ UNCHANGED <<now, mlast, mget>>
    /\ UNCHANGED dispatcherOnly
    /\ UNCHANGED exceptMemory

\* cleanupLoop, the Range is over.
MSweepEnd ==
    /\ msweep.pc = "walking"
    /\ msweep.left = {}
    /\ msweep' = NoSweep
    /\ mgot' = NoMemGot
    /\ UNCHANGED <<now, store, mlast, mget>>
    /\ UNCHANGED dispatcherOnly
    /\ UNCHANGED exceptMemory

MemNext ==
    \/ MTick
    \/ \E d \in Hosts, e \in MemEngines : MSet(d, e)
    \/ \E d \in Hosts : MDelete(d)
    \/ \E d \in Hosts : MGetLoad(d)
    \/ MGetDelete
    \/ MSweepStart
    \/ \E d \in Hosts : MSweepVisit(d)
    \/ MSweepDelete
    \/ MSweepEnd

\* =================================================== HTTP engine
\* HTTPEngine.Fetch on its own.  A Content-Type is the sequence of its
\* characters; html says whether it names text/html or application/xhtml+xml
\* in any letter case.
ContentTypes ==
    {[chars |-> <<"t", "e", "x", "t", "/", "h", "t", "m", "l">>, html |-> TRUE],
     [chars |-> <<"T", "E", "X", "T", "/", "H", "T", "M", "L">>, html |-> TRUE],
     [chars |-> <<"T", "e", "x", "t", "/", "H", "t", "m", "l", ";", " ", "c", "h", "a", "r", "s", "e", "t", "=", "u", "t", "f", "-", "8">>, html |-> TRUE],
     [chars |-> <<"a", "p", "p", "l", "i", "c", "a", "t", "i", "o", "n", "/", "x", "h", "t", "m", "l", "+", "x", "m", "l">>, html |-> TRUE],
     [chars |-> <<"A", "p", "p", "l", "i", "c", "a", "t", "i", "o", "n", "/", "X", "H", "T", "M", "L", "+", "X", "M", "L">>, html |-> TRUE],
     [chars |-> <<"x", "t", "e", "x", "t", "/", "h", "t", "m", "l", "x">>, html |-> TRUE],
     [chars |-> <<"a", "p", "p", "l", "i", "c", "a", "t", "i", "o", "n", "/", "j", "s", "o", "n">>, html |-> FALSE],
     [chars |-> <<"t", "e", "x", "t", "/", "p", "l", "a", "i", "n">>, html |-> FALSE],
     [chars |-> <<"t", "e", "x", "t", "/", "h", "t", "m">>, html |-> FALSE],
     [chars |-> <<>>, html |-> FALSE],
     [chars |-> <<"h", "t", "m", "l", "/", "t", "e", "x", "t">>, html |-> FALSE]}

Statuses == {200, 304, 399, 400, 404}
Bodies == {"", "<html>"}

\* What the network does with one request: NewRequestWithContext succeeds or
\* not, the servers answer or not (did), with so many redirects in a row
\* before the final response, the body is read or not.
Exchanges == [built : BOOLEAN, did : BOOLEAN, redirects : 0..MaxChain, read : BOOLEAN,
              status : Statuses, ct : ContentTypes, body : Bodies]

NoFetchResult == [HTML |-> "", StatusCode |-> 0, EngineName |-> ""]
NoFetch == [returned |-> FALSE]

HInit == hfetch = NoFetch

Upper == <<"A", "B", "C", "D", "E", "F", "G", "H", "I", "J", "K", "L", "M", "N", "O", "P",
           "Q", "R", "S", "T", "U", "V", "W", "X", "Y", "Z">>
Lower == <<"a", "b", "c", "d", "e", "f", "g", "h", "i", "j", "k", "l", "m", "n", "o", "p",
           "q", "r", "s", "t", "u", "v", "w", "x", "y", "z">>

\* strings.ToLower, one character
KeepCase(c) == c

ToLowerChar(c) ==
    IF \E i \in 1..Len(Upper) : Upper[i] = c
    THEN Lower[CHOOSE i \in 1..Len(Upper) : Upper[i] = c]
    ELSE c

\* strings.ToLower
ToLower(str) == [i \in 1..Len(str) |-> ToLowerChar(str[i])]

\* strings.Contains
Contains(str, sub) ==
    \E i \in 0..(Len(str) - Len(sub)) : SubSeq(str, i + 1, i + Len(sub)) = sub

TextHTML == <<"t", "e", "x", "t", "/", "h", "t", "m", "l">>
AppXHTML == <<"a", "p", "p", "l", "i", "c", "a", "t", "i", "o", "n", "/", "x", "h", "t", "m",
              "l", "+", "x", "m", "l">>

isHTMLContentType(ct) ==
    LET low == ToLower(ct) IN Contains(low, TextHTML) \/ Contains(low, AppXHTML)

\* The status test of Fetch.
ErrorStatusAbove(status) == status > 400

ErrorStatus(status) == status >= 400

\* An error of the HTTP engine.
HTTPErr(msg) == [kind |-> msg, engine |-> 1]

\* The engine's CheckRedirect, called by the client before it follows a
\* redirect, with the requests made so far: an error for too many.
CheckRedirect(via) == via >= MaxVia

\* http.Client.Do from a redirect response on: via requests have been made,
\* more redirects are to come.  TRUE when the final response is reached.
RECURSIVE Follow(_, _)
Follow(via, more) ==
    IF more = 0 THEN TRUE
    ELSE IF CheckRedirect(via) THEN FALSE
    ELSE Follow(via + 1, more - 1)

\* e.client.Do returns a response and no error.
ClientDo(x) == x.did /\ Follow(1, x.redirects)

\* HTTPEngine.Fetch on exchange x: the result and the error it returns.
HTTPFetch(x) ==
    IF ~x.built THEN [result |-> NoFetchResult, err |-> HTTPErr("build request")]
    ELSE IF ~ClientDo(x) THEN [result |-> NoFetchResult, err |-> HTTPErr("do request")]
    ELSE IF ~x.read THEN [result |-> NoFetchResult, err |-> HTTPErr("read body")]
    ELSE IF ErrorStatus(x.status) \/ ~isHTMLContentType(x.ct.chars)
         THEN [result |-> NoFetchResult, err |-> HTTPErr("non-html or error status")]
    ELSE [result |-> [HTML |-> x.body, StatusCode |-> x.status, EngineName |-> "http"],
          err |-> NilErr]

\* One call of Fetch returns.
HFetch(x) ==
    /\ hfetch = NoFetch
    /\ hfetch' = [returned |-> TRUE, exchange |-> x, result |-> HTTPFetch(x).result,
                  err |-> HTTPFetch(x).err]
    /\ UNCHANGED exceptHTTP

\* The caller goes on to its next Fetch.
HReturn ==
    /\ hfetch # NoFetch
    /\ hfetch' = NoFetch
    /\ UNCHANGED exceptHTTP

HTTPNext ==
    \/ \E x \in Exchanges : HFetch(x)
    \/ HReturn

\* =================================================== simhash
\* Fingerprint, Distance and Similar.  Each bit of a fingerprint depends on
\* the same bit of the token hashes only, and the low bits of an FNV-64a hash
\* are the FNV-64a computation carried out on the low bits: the model keeps
\* the low HashBits bits of every 64-bit value.  A text is the sequence of its
\* characters.

Chars == {"a", "b", " ", "TAB"}

\* The byte of a character.
Code(c) ==
    CASE c = "a" -> 97 [] c = "b" -> 98 [] c = " " -> 32 [] c = "TAB" -> 9 [] c = "_" -> 95

\* unicode.IsSpace
IsSpace(c) == c \in {" ", "TAB"}

\* The length of the run of non-space characters text begins with.
RECURSIVE WordLen(_)
WordLen(text) ==
    IF text = <<>> \/ IsSpace(Head(text)) THEN 0 ELSE 1 + WordLen(Tail(text))

\* strings.Fields
RECURSIVE Fields(_)
Fields(text) ==
    IF text = <<>> THEN <<>>
    ELSE IF IsSpace(Head(text)) THEN Fields(Tail(text))
    ELSE <<SubSeq(text, 1, WordLen(text))>>
            \o Fields(SubSeq(text, WordLen(text) + 1, Len(text)))

\* Arithmetic of uint64, its low HashBits bits.
Word64(x) == x % (2 ^ HashBits)

\* a ^ b
RECURSIVE Xor(_, _)
Xor(a, b) ==
    IF a = 0 THEN b
    ELSE IF b = 0 THEN a
    ELSE ((a + b) % 2) + 2 * Xor(a \div 2, b \div 2)

\* fnv.New64a, Write, Sum64: the hash after the bytes, from state h.
RECURSIVE Sum64a(_, _)
Sum64a(h, bytes) ==
    IF bytes = <<>> THEN h
    ELSE Sum64a(Word64(Word64(Xor(h, Code(Head(bytes)))) * FnvPrime), Tail(bytes))

Hash(word) == Sum64a(FnvOffset, word)

\* hash & (1 << i) != 0
BitSet(x, i) == (x \div (2 ^ i)) % 2 = 1

\* vector[i] after the first n words.
RECURSIVE Vector(_, _, _)
Vector(words, n, i) ==
    IF n = 0 THEN 0
    ELSE Vector(words, n - 1, i) + (IF BitSet(Hash(words[n]), i) THEN 1 ELSE -1)

\* The test that sets a fingerprint bit.
NotNegative(n) == n >= 0

Positive(n) == n > 0

\* The sum of 2^i over the bit positions in set b.
RECURSIVE BitsValue(_)
BitsValue(b) ==
    IF b = {} THEN 0 ELSE LET i == CHOOSE j \in b : TRUE IN 2 ^ i + BitsValue(b \ {i})

\* Fingerprint of the text with the given characters.
Fingerprint(text) ==
    LET words == Fields(text) IN
    IF Len(words) = 0 THEN 0
    ELSE BitsValue({i \in 0..(HashBits - 1) : Positive(Vector(words, Len(words), i))})

\* bits.OnesCount64
RECURSIVE OnesCount(_)
OnesCount(x) == IF x = 0 THEN 0 ELSE (x % 2) + OnesCount(x \div 2)

Distance(a, b) == OnesCount(Xor(a, b))

\* The comparison of Similar.
Below(d, threshold) == d < threshold

AtMost(d, threshold) == d <= threshold

Similar(a, b, threshold) == AtMost(Distance(a, b), threshold)

\* The texts, fingerprints and thresholds the functions are applied to.
Texts == UNION {[1..n -> Chars] : n \in 0..MaxTextLen}
Words64 == 0..(2 ^ HashBits - 1)
Thresholds == -1..(HashBits + 1)

NoSim == [op |-> "none"]

SInit == sim = NoSim

SimFingerprint(text) ==
    /\ sim = NoSim
    /\ sim' = [op |-> "Fingerprint", text |-> text, fp |-> Fingerprint(text)]
    /\ UNCHANGED exceptSimhash

SimDistance(a, b) ==
    /\ sim = NoSim
    /\ sim' = [op |-> "Distance", a |-> a, b |-> b, d |-> Distance(a, b)]
    /\ UNCHANGED exceptSimhash

SimSimilar(a, b, k) ==
    /\ sim = NoSim
    /\ sim' = [op |-> "Similar", a |-> a, b |-> b, threshold |-> k,
               similar |-> Similar(a, b, k)]
    /\ UNCHANGED exceptSimhash

\* FingerprintDOM.  An HTML input is the sequence of tokens html.Tokenizer
\* yields for it: text, start tags, end tags and self-closing tags, the tags
\* with a name and attributes.
TagNames == {<<"a">>, <<"b">>}
HTMLTokens ==
    [type : {"StartTag"}, name : TagNames, data : {0, 1}]
        \cup [type : {"SelfClosingTag", "EndTag"}, name : {<<"b">>}, data : {0}]
        \cup [type : {"Text"}, name : {<<>>}, data : {0, 1}]
HTMLs == UNION {[1..n -> HTMLTokens] : n \in 0..MaxTokens}

\* The token types extractTags collects.
AnyTag(tt) == tt \in {"StartTag", "SelfClosingTag", "EndTag"}

OpenTag(tt) == tt \in {"StartTag", "SelfClosingTag"}

\* extractTags
RECURSIVE extractTags(_)
extractTags(html) ==
    IF html = <<>> THEN <<>>
    ELSE (IF OpenTag(Head(html).type) THEN <<Head(html).name>> ELSE <<>>)
            \o extractTags(Tail(html))

\* strings.Join
RECURSIVE Join(_, _)
Join(strs, sep) ==
    IF strs = <<>> THEN <<>>
    ELSE IF Len(strs) = 1 THEN strs[1]
    ELSE strs[1] \o sep \o Join(Tail(strs), sep)

\* makeShingles' test for too few tokens.
NotMore(len, n) == len <= n

Fewer(len, n) == len < n

\* makeShingles
makeShingles(tokens, n) ==
    IF Fewer(Len(tokens), n) THEN <<>>
    ELSE [i \in 1..(Len(tokens) - n + 1) |-> Join(SubSeq(tokens, i, i + n - 1), <<"_">>)]

FingerprintDOM(html) ==
    LET tags == extractTags(html)
        shingles == makeShingles(tags, 3)
    IN  IF Len(tags) = 0 THEN 0
        ELSE IF Len(shingles) = 0 THEN Fingerprint(Join(tags, <<" ">>))
        ELSE Fingerprint(Join(shingles, <<" ">>))

\* An input with the tags of html in the same order, as bare start tags and
\* nothing else.
Bare(html) ==
    LET tags == SelectSeq(html, LAMBDA t : t.type \in {"StartTag", "SelfClosingTag"}) IN
    [i \in 1..Len(tags) |-> [type |-> "StartTag", name |-> tags[i].name, data |-> 0]]

SimFingerprintDOM(html) ==
    /\ sim = NoSim
    /\ sim' = [op |-> "FingerprintDOM", html |-> html, fp |-> FingerprintDOM(html),
               bare |-> FingerprintDOM(Bare(html))]
    /\ UNCHANGED exceptSimhash

\* The caller goes on to its next call.
SimReturn ==
    /\ sim # NoSim
    /\ sim' = NoSim
    /\ UNCHANGED exceptSimhash

SimNext ==
    \/ \E text \in Texts : SimFingerprint(text)
    \/ \E a \in Words64, b \in Words64 : SimDistance(a, b)
    \/ \E a \in Words64, b \in Words64, k \in Thresholds : SimSimilar(a, b, k)
    \/ \E html \in HTMLs : SimFingerprintDOM(html)
    \/ SimReturn

\* =================================================== specifications
Init == DInit /\ PInit /\ RInit /\ CInit /\ MInit /\ HInit /\ SInit

Spec == Init /\ [][DNext]_vars

SpecPool == Init /\ [][PNext]_vars

SpecStop == Init /\ [][StopNext]_vars

SpecRod == Init /\ [][RNext]_vars

SpecCache == Init /\ [][CacheNext]_vars

SpecHandler == Init /\ [][HandlerNext]_vars

SpecMem == Init /\ [][MemNext]_vars

SpecHTTP == Init /\ [][HTTPNext]_vars

SpecSimhash == Init /\ [][SimNext]_vars

\* The pool between two ticks of the scaling loop's 10 s ticker: only callers
\* take steps.
CNext ==
    \/ \E k \in 0..MinPages : NewAdaptivePool(k)
    \/ \E c \in Callers : GetFast(c)
    \/ \E c \in Callers : GetMiss(c)
    \/ \E c \in Callers, ok \in BOOLEAN : GetCreate(c, ok)
    \/ \E c \in Callers : GetWait(c)
    \/ \E c \in Callers, success \in BOOLEAN, aged \in BOOLEAN : PutRecord(c, success, aged)
    \/ \E c \in Callers : PutRequeue(c)
    \/ \E c \in Callers : PutDestroy(c)
    \/ \E c \in Callers, ok \in BOOLEAN : PutReplace(c, ok)
    \/ \E c \in Callers : PutSend(c)

SpecCallers == Init /\ [][CNext]_vars

\* The dispatcher with its goroutines scheduled fairly.  The race variables stand
\* for one race at a time, so the next call begins once the closer goroutine of
\* the previous race is through.
LiveNext ==
    \/ \E h \in Hosts, t \in ReqTimeouts :
           ((\A i \in EngineIds : tpc[i] = "none") \/ closed) /\ DoScrapeDispatch(h, t)
    \/ \E h \in Hosts, t \in ReqTimeouts :
           ((\A i \in EngineIds : tpc[i] = "none") \/ closed) /\ DoScrapeDirect(h, t)
    \/ \E o \in {"ok"} \cup ErrKinds : MemFetchReturn(o)
    \/ RaceSpawn
    \/ \E i \in EngineIds : TaskAbort(i)
    \/ \E i \in EngineIds : TaskStart(i)
    \/ \E i \in EngineIds, o \in {"ok"} \cup ErrKinds : TaskFetchReturn(i, o)
    \/ CloseResults
    \/ CollectErr
    \/ CollectOK
    \/ CollectClosed
    \/ \E ok \in BOOLEAN : RodAcquired(ok)
    \/ RodNavigate
    \/ \E k \in {"nil", "navigation", "timeout"} : RodFinish(k)
    \/ CallerCancel
    \/ Tick

\* Time passes; a task's goroutine runs when it can (its timer fired, or the race
\* context is done); an engine's Fetch returns once the race context is done; the
\* closer goroutine runs when the WaitGroup lets it.
Fairness ==
    /\ WF_vars(Tick)
    /\ \A i \in EngineIds : WF_vars(TaskAbort(i))
    /\ \A i \in EngineIds : WF_vars(TaskStart(i))
    /\ \A i \in EngineIds :
           WF_vars(RaceCtxDone /\ \E o \in {"ok"} \cup ErrKinds : TaskFetchReturn(i, o))
    /\ WF_vars(CloseResults)

SpecLive == Init /\ [][LiveNext]_vars /\ Fairness

\* =================================================== claims, dispatcher
\* Dispatch has returned in the current call.
Returned == dret.returned
\* The current call went through Dispatch.
InDispatch == pc \in {"memFetch", "race", "collect"} \/ Returned
\* The staged race of the current call was started.
RanRace == \E i \in EngineIds : tpc[i] # "none"
\* Task i called its engine's Fetch.
Called(i) == tpc[i] = "fetch" \/ outcome[i] # "none"
IsOK(r) == r.err = NilErr
IsFailure(r) == r.err # NilErr
Successes == SelectSeq(collected, IsOK)
Failures == SelectSeq(collected, IsFailure)

\* C1: when a Dispatch ran the race and some engine's Fetch returned without
\* error, Dispatch returns a result of an engine whose Fetch returned nil, and
\* the domain memory maps the request's host to that engine's name.
C1_RaceSuccessRemembered ==
    (Returned /\ RanRace /\ \E i \in EngineIds : outcome[i] = "ok") =>
        /\ dret.err = NilErr
        /\ dret.result.engine \in EngineIds
        /\ outcome[dret.result.engine] = "ok"
        /\ store[req.host] # NoEntry
        /\ store[req.host].engineName = Name(dret.result.engine)

\* C1 witness: the first engine failed, the second won the race.
C1_Witness ==
    /\ Returned /\ RanRace
    /\ outcome[1] = "engine"
    /\ outcome[2] = "ok"
    /\ dret.result.engine = 2

\* C2: a race announces a winner once: DomainMemory.Set is called at most once,
\* with the name of the first success collected, whose result is the one
\* returned; a later success changes neither.
C2_WinnerAnnouncedOnce ==
    /\ memSets <= 1
    /\ Len(Successes) <= 1
    /\ (Returned /\ RanRace /\ dret.err = NilErr) => (memSets = 1 /\ Len(Successes) = 1)
    /\ Len(Successes) = 1 =>
        /\ Returned
        /\ dret.result = Successes[1].result
        /\ store[req.host].engineName = Successes[1].result.EngineName

\* C2 witness: two engines succeeded; the later success sits in the channel
\* after the first one was returned.
C2_Witness ==
    /\ Returned
    /\ dret.result.engine = 2
    /\ outcome[1] = "ok"
    /\ outcome[2] = "ok"
    /\ Len(results) = 1

\* The domain memory held an unexpired entry naming a configured engine for the
\* request's host when the call looked it up.
Hit ==
    /\ startStore[req.host] # NoEntry
    /\ callStart <= startStore[req.host].expiresAt
    /\ \E i \in EngineIds : Name(i) = startStore[req.host].engineName

\* C3: on a memory hit Dispatch first calls only the remembered engine; when it
\* succeeds its result is returned and no task of a race ever exists; when it
\* fails the host's entry is absent before the race's tasks are spawned (and
\* until a winner is remembered), and the race runs.
C3_RememberedEngineFirst ==
    (InDispatch /\ Hit) =>
        /\ memEngine \in EngineIds
        /\ Name(memEngine) = startStore[req.host].engineName
        /\ pc = "memFetch" => (memOutcome = "none" /\ ~RanRace)
        /\ pc # "memFetch" => memOutcome # "none"
        /\ memOutcome = "ok" =>
            (Returned /\ dret.err = NilErr /\ dret.result.engine = memEngine /\ ~RanRace)
        /\ memOutcome \notin {"none", "ok"} =>
            /\ pc = "race" \/ RanRace
            /\ memSets = 0 => store[req.host] = NoEntry

\* C3 witness: the remembered engine failed and the race is running.
C3_Witness ==
    /\ Hit
    /\ memOutcome = "engine"
    /\ pc = "collect"
    /\ tpc[1] = "fetch"

\* C4: Dispatch returns an error only after every task of the race has finished;
\* the error is the last failure collected, and the synthetic "all engines
\* failed" error is returned only when no task reported a failure.
C4_ErrorOnlyAfterAllTasks ==
    (Returned /\ dret.err # NilErr) =>
        /\ \A i \in EngineIds : tpc[i] = "done"
        /\ IF Failures = <<>>
           THEN dret.err.kind = "allfailed"
           ELSE dret.err = Failures[Len(Failures)].err
        /\ dret.err.kind = "allfailed" => \A i \in EngineIds : outcome[i] = "none"

\* C4 witness: all three engines ran and failed; the third failure is returned.
C4_Witness ==
    /\ Returned
    /\ Len(Failures) = 3
    /\ dret.err.engine = Failures[3].err.engine
    /\ dret.err.kind = "engine"

\* C5: a task whose escalation delay had not elapsed when the race context
\* ended never calls its engine's Fetch.
C5_PendingNeverAsked == \A i \in pending : ~Called(i)

\* C5 witness: the first engine won before the delays of the later two elapsed;
\* both have returned without being asked, their delays long over.
C5_Witness ==
    /\ Returned
    /\ dret.result.engine = 1
    /\ pending = {2, 3}
    /\ tpc[2] = "done" /\ tpc[3] = "done"
    /\ now >= raceStart + escalationDelays[3]

\* C6 (as claimed): a Dispatcher failure by deadline or cancellation is returned
\* by DoScrape unchanged, without the direct browser path; any other Dispatcher
\* failure is followed by the fallback.
C6_TimeoutNotRetried ==
    /\ (Returned /\ dret.err.kind \in {"deadline", "canceled"}) =>
            (~fallback /\ (pc = "done" => fret.err = dret.err))
    /\ (Returned /\ dret.err.kind \in {"engine", "allfailed"}) => fallback

\* C7 (as claimed): no engine fetch, page acquisition or pipeline step of a
\* DoScrape call begins after callStart + min(request timeout, maximum).
C7_SingleDeadline == ~stepLate

\* Every engine of the current Dispatch failed because the deadline passed.
AllTimedOut ==
    /\ Returned
    /\ dret.err # NilErr
    /\ cause = "deadline"
    /\ memOutcome \in {"none", "deadline"}
    /\ \A i \in EngineIds : outcome[i] \in {"none", "deadline"}

\* The entries of a store as DomainMemory.Get reports them at the present time.
View(s) == [h \in Hosts |-> MemGet(s, h, now)]

Quiescent ==
    /\ started
    /\ \A c \in Clients : cpc[c] \in {"idle", "holding"}
    /\ spc = "idle"

\* C9: the number of live handles never exceeds the hard maximum.
C9_LiveAtMostHardMax == Cardinality(all) <= HardMax

\* C9 witness: the pool is at its hard maximum, no handle is ready, and a Get
\* that was refused a new handle waits for one to be returned.
C9_Witness ==
    /\ Cardinality(all) = HardMax
    /\ idle = <<>>
    /\ \E c \in Clients : cpc[c] = "getWait"

\* C10 (as claimed): in a quiescent state after startup in which the factory
\* never failed, at least MinPages handles are live.
C10_LiveAtLeastMinPages ==
    (Quiescent /\ ~factoryFailed) => Cardinality(all) >= MinPages

\* C11: a Put with a success verdict sets errScore to max(0, errScore - 0.5)
\* (one half-point), a Put with a failure verdict adds 1.0 (two half-points),
\* either adds exactly 1 to useCount and touches no other handle; errScore is
\* never negative and the useCount of a live handle never decreases.
C11_PutVerdict ==
    [][/\ \A c \in Clients, aged \in BOOLEAN :
            /\ PutRecord(c, TRUE, aged) =>
                /\ health'[held[c]].errScore =
                        (IF health[held[c]].errScore - 1 > 0
                         THEN health[held[c]].errScore - 1 ELSE 0)
                /\ health'[held[c]].useCount = health[held[c]].useCount + 1
                /\ \A g \in 1..MaxId : g # held[c] => health'[g] = health[g]
            /\ PutRecord(c, FALSE, aged) =>
                /\ health'[held[c]].errScore = health[held[c]].errScore + 2
                /\ health'[held[c]].useCount = health[held[c]].useCount + 1
                /\ \A g \in 1..MaxId : g # held[c] => health'[g] = health[g]
       /\ \A h \in 1..MaxId : health'[h].errScore >= 0
       /\ \A h \in all' : health'[h].useCount >= health[h].useCount]_vars

\* C11 witness: a live handle was Put with a failure and then with a success, and
\* another Put with a success met the floor at zero.
C11_Witness ==
    \E h \in all, g \in all :
        /\ health[h].useCount = 2 /\ health[h].errScore = 1
        /\ health[g].useCount = 1 /\ health[g].errScore = 0

\* The handles on the idle channel.
Ready == {idle[i] : i \in 1..Len(idle)}

\* The handles the factory made that have been destroyed.
Destroyed == (1..nextId) \ all

C13_GetOrder ==
    [][\A c \in Clients :
        /\ (cpc[c] = "idle" /\ cpc'[c] # "idle") =>
                IF idle # <<>>
                THEN /\ cpc'[c] = "holding"
                     /\ held'[c] = Head(idle)
                     /\ idle' = Tail(idle)
                     /\ UNCHANGED <<nextId, all, factoryFailed>>
                ELSE /\ cpc'[c] = "getLock"
                     /\ UNCHANGED <<nextId, all, factoryFailed, idle, held>>
        /\ (cpc[c] = "getLock" /\ cpc'[c] # "getLock") =>
                IF Cardinality(all) < HardMax
                THEN \/ /\ nextId' = nextId + 1
                        /\ all' = all \cup {nextId'}
                        /\ held'[c] = nextId'
                        /\ cpc'[c] = "holding"
                     \/ /\ factoryFailed'
                        /\ UNCHANGED <<nextId, all, held>>
                        /\ cpc'[c] = "getWait"
                ELSE /\ UNCHANGED <<nextId, all, factoryFailed, held>>
                     /\ cpc'[c] = "getWait"
        /\ (cpc[c] = "getWait" /\ cpc'[c] # "getWait") =>
                /\ idle # <<>>
                /\ cpc'[c] = "holding"
                /\ held'[c] = Head(idle)
                /\ idle' = Tail(idle)
                /\ UNCHANGED <<nextId, all, factoryFailed>>]_vars

\* C13 witness: a Get found the channel empty and the pool at HardMax and waits,
\* while another caller is about to send its handle back.
C13_Witness ==
    \E c \in Clients, d \in Clients :
        /\ cpc[c] = "getWait"
        /\ cpc[d] = "putRequeue"
        /\ idle = <<>>
        /\ Cardinality(all) = HardMax
        /\ ~factoryFailed

\* Caller d's Put returns in this step.
PutCompletes(d) == cpc[d] \in {"putRequeue", "putReplace", "putSend"} /\ cpc'[d] = "idle"

\* C14 (as claimed): when a Put returns while a Get waits in the blocking
\* receive (which, no factory call having failed, it entered with the pool at
\* HardMax), the Put has left a handle on the idle channel for it: its own, or
\* the replacement of the one it retired.
C14_PutUnblocksGet ==
    [][\A d \in Callers :
        (PutCompletes(d) /\ ~factoryFailed' /\ \E c \in Callers : cpc[c] = "getWait")
            => idle' # <<>>]_vars

\* The callers that have handle h in hand.
Holders(h) == {c \in Callers : held[c] = h}

\* The places handle h is at: positions on the idle channel, callers' hands
\* (between Get and the end of Put), and the scaling loop's hand.
Places(h) ==
    Cardinality({i \in 1..Len(idle) : idle[i] = h})
        + Cardinality(Holders(h))
        + (IF sh = h THEN 1 ELSE 0)

Count(log, name) == Cardinality({i \in DOMAIN log : log[i] = name})

\* The index of the first occurrence of `name` in a log, 0 if there is none.
First(log, name) ==
    IF \E i \in DOMAIN log : log[i] = name
    THEN CHOOSE i \in DOMAIN log : log[i] = name /\ \A j \in 1..(i - 1) : log[j] # name
    ELSE 0

\* doScrapeRod has returned from the current call of scrape s.
ScrapeReturned(s) == at[s] = "done"

\* The current call of scrape s went through the pool and got a tab.
Acquired(s) ==
    /\ at[s] \notin {"idle", "acquire"}
    /\ ~sreq[s].CDPURL
    /\ sret[s] # "BrowserCrash"

\* C16: once a tab is acquired it is put back exactly once on every exit path
\* (success, navigation error, action failure, extraction error, timeout,
\* panic), and a call whose acquisition failed puts nothing back: a returned
\* call has one Put if it acquired a tab and none otherwise, no call ever has
\* two, no returned call keeps a tab, and no tab is in the pool twice or in the
\* pool while a scrape has it.
C16_TabReturnedOnce ==
    /\ \A s \in Scrapes :
        /\ Count(steps[s], "Put") <= 1
        /\ ScrapeReturned(s) =>
            /\ page[s] = 0
            /\ Count(steps[s], "Put") = IF Acquired(s) THEN 1 ELSE 0
            /\ sret[s] \in {"ok", "Navigation", "Timeout", "ActionFailed", "panic",
                            "BrowserCrash"}
    /\ \A i, j \in DOMAIN pagePool : pagePool[i] # 0 /\ i # j => pagePool[i] # pagePool[j]
    /\ \A s \in Scrapes : page[s] # 0 =>
        /\ \A i \in DOMAIN pagePool : pagePool[i] # page[s]
        /\ \A t \in Scrapes \ {s} : page[t] # page[s]

\* One scrape has returned from a panic with its tab put back, the other from a
\* failed acquisition with nothing put back.
C16_Witness ==
    /\ ScrapeReturned("s1") /\ sret["s1"] = "panic" /\ Count(steps["s1"], "Put") = 1
    /\ ScrapeReturned("s2") /\ sret["s2"] = "BrowserCrash" /\ Count(steps["s2"], "Put") = 0
    /\ pagePool # <<>>

\* C17: on every exit path the cleanup first issues the about:blank navigation
\* on the tab and only then puts the tab back, and the navigation runs on the
\* tab's background context: a scrape about to put its tab back has just issued
\* the navigation, a Put is the last operation of its call and follows the
\* navigation directly, and the navigation is never refused because the
\* request context is done.
C17_BlankThenPut ==
    \A s \in Scrapes :
        LET n == Len(steps[s]) IN
        /\ at[s] = "put" => n >= 1 /\ steps[s][n] = "about:blank"
        /\ \A i \in 1..n : steps[s][i] = "Put" =>
            i = n /\ i >= 2 /\ steps[s][i - 1] = "about:blank"
        /\ \A i \in 1..n : steps[s][i] # "refused"
        /\ ScrapeReturned(s) /\ Acquired(s) => n >= 2 /\ steps[s][n] = "Put"

\* A scrape whose request context ended before the navigation returned Timeout
\* after the about:blank navigation and the Put.
C17_Witness ==
    /\ ScrapeReturned("s1") /\ sret["s1"] = "Timeout"
    /\ steps["s1"] = <<"SetExtraHTTPHeaders", "SetCookie", "HijackRequests", "Navigate",
                       "about:blank", "Put">>

\* C18: a scrape whose request context is cancelled or runs out while it is
\* blocked waiting for a tab stops waiting and returns a Timeout failure
\* without holding a tab: from then on it has no tab, and it is either still
\* at the acquisition or has returned Timeout.
C18_ExpiredWaiterGivesUp ==
    \A s \in Scrapes : expiredBlocked[s] =>
        /\ page[s] = 0
        /\ at[s] = "acquire" \/ (ScrapeReturned(s) /\ sret[s] = "Timeout")

\* The order the pooled pipeline is to issue its operations in for request r,
\* the wait step under one name.
PipelineOrder(r) ==
    (IF r.Stealth THEN <<"EvalOnNewDocument">> ELSE <<>>)
    \o <<"SetExtraHTTPHeaders", "SetCookie", "HijackRequests", "Navigate", "wait">>
    \o (IF r.Actions THEN <<"executeActions">> ELSE <<>>)
    \o <<"HTML">>

\* The operations scrape s has issued before its cleanup, the wait step under
\* one name.
Issued(s) ==
    LET body == SelectSeq(steps[s], LAMBDA x : x \notin {"about:blank", "Put"})
    IN  [i \in 1..Len(body) |->
            IF body[i] \in {"WaitDOMStable", "waitIdle"} THEN "wait" ELSE body[i]]

IsPrefix(a, b) == Len(a) <= Len(b) /\ \A i \in 1..Len(a) : a[i] = b[i]

\* C19: in every run of the pooled pipeline, stealth injection (when asked
\* for), extra headers, cookies and the interceptor are installed before
\* Navigate, the wait step follows Navigate, the actions follow the wait step
\* and the extraction comes after the actions, nothing out of this order: the
\* operations issued so far are always a prefix of that order.
C19_StepOrder ==
    \A s \in Scrapes : ~sreq[s].CDPURL => IsPrefix(Issued(s), PipelineOrder(sreq[s]))

\* A stealth scrape with actions has returned its result after all eight
\* operations.
C19_Witness ==
    /\ ScrapeReturned("s1") /\ sret["s1"] = "ok"
    /\ sreq["s1"].Stealth /\ sreq["s1"].Actions
    /\ Issued("s1") = PipelineOrder(sreq["s1"])

\* C20: whenever the request has waitForNetworkIdle set, the network-idle
\* watcher is installed before Navigate is issued and the wait step waits on
\* it; the DOM-stability wait is used only when waitForNetworkIdle is not set.
C20_IdleWatcherBeforeNavigate ==
    \A s \in Scrapes :
        LET nav == First(steps[s], "Navigate")
            inst == First(steps[s], "WaitRequestIdle")
        IN  IF sreq[s].WaitForNetworkIdle
            THEN /\ nav > 0 => inst > 0 /\ inst < nav
                 /\ Count(steps[s], "WaitDOMStable") = 0
            ELSE /\ inst = 0
                 /\ Count(steps[s], "waitIdle") = 0

\* C21: scripted actions run in list order; when the action at index i is the
\* first to fail the scrape returns ActionFailed naming i, no action after i
\* runs, the HTML is not extracted, and the tab is still cleaned up and put
\* back: the indices run are 0, 1, ... in order, a scrape that returns
\* ActionFailed names the last index run, has left the action loop without
\* extracting, and when it has returned it ended with about:blank and Put.
C21_FirstActionFailureAborts ==
    \A s \in Scrapes : ~sreq[s].CDPURL =>
        LET n == Len(acted[s]) IN
        /\ n <= NumActions
        /\ \A i \in 1..n : acted[s][i] = i - 1
        /\ failedAt[s] # NoIndex <=> sret[s] = "ActionFailed"
        /\ sret[s] = "ActionFailed" =>
            /\ n >= 1 /\ failedAt[s] = n - 1
            /\ at[s] \in {"blank", "put", "done"}
            /\ Count(steps[s], "HTML") = 0
            /\ ScrapeReturned(s) =>
                /\ page[s] = 0
                /\ SubSeq(steps[s], Len(steps[s]) - 1, Len(steps[s])) = <<"about:blank", "Put">>

\* A scrape with two actions has returned ActionFailed for index 0: the second
\* action never ran and the tab is back in the pool.
C21_Witness ==
    /\ ScrapeReturned("s1") /\ sret["s1"] = "ActionFailed"
    /\ failedAt["s1"] = 0 /\ acted["s1"] = <<0>>
    /\ NumActions >= 2
    /\ Count(steps["s1"], "Put") = 1 /\ pagePool # <<>>

\* C22: on the CDP path the scrape never acquires or returns a pool tab, closes
\* the one-shot tab it opened on every exit path, and ends the session by
\* disconnecting only, never with a command that terminates the caller's
\* browser.
C22_CDPLeavesBrowserRunning ==
    \A s \in Scrapes : sreq[s].CDPURL =>
        /\ page[s] = 0
        /\ Count(steps[s], "Put") = 0
        /\ ScrapeReturned(s) => tab[s] \in {"none", "closed"}
        /\ remote[s] # "terminated"

\* =================================================== claims, response cache
\* The time since the last Set, at the end of the step.
Elapsed == cnow' - lastSet.at

\* maxAgeMs milliseconds fit in a Duration.
Fits(maxAgeMs) == maxAgeMs * NsPerMs < 2 ^ (DurBits - 1)

C24_NeverBeyondMaxEntries ==
    [][/\ Cardinality(Present(cstore')) <= maxEntries
       /\ swpc = "idle" /\ cstore' # cstore =>
            IF Cardinality(Present(cstore)) >= maxEntries
            THEN \E x \in Present(cstore) :
                    Present(cstore') = (Present(cstore) \ {x}) \cup {lastSet'.key}
            ELSE Present(cstore') = Present(cstore) \cup {lastSet'.key}]_vars

\* The last Set found the store at capacity, evicted an entry of another key
\* and inserted its own.
C24_Witness ==
    /\ lastSet.size = maxEntries
    /\ Cardinality(Present(cstore)) = maxEntries
    /\ lastSet.key \in Present(cstore)
    /\ cstore[lastSet.key] = [response |-> lastSet.response, createdAt |-> lastSet.at]
    /\ \E k \in Keys \ Present(cstore) : TRUE

\* C25 as stated: within one sweep the exclusive lock is not held across the
\* deletion of more than one entry.
C25_SweepUnlocksBetweenDeletes == sweepDeletes <= 1

\* =================================================== claims, /scrape handler
\* C26: a request that fails in the scraper or in the cleaner has not written
\* to the cache, and none of the steps such a request takes (lookup, scrape,
\* clean) changes the store.
C26_FailedRequestLeavesCache ==
    [][\A q \in Handlers :
        /\ served'[q] = "error" => ~wrote'[q]
        /\ hpos'[q] # hpos[q] /\ hpos[q] \in {"lookup", "scrape", "clean"} =>
            cstore' = cstore]_vars

\* A request with a positive max_age has failed and responded with the error.
C26_Witness ==
    \E q \in Handlers :
        /\ served[q] = "error" /\ hpos[q] = "done"
        /\ hreq[q].MaxAge > 0
        /\ ~wrote[q]

\* C27 as stated: a response served from the cache reports cacheStatus=hit
\* and the response of the request that fetched and stored the entry reports
\* cacheStatus=miss, also when the two requests run concurrently.
C27_CacheStatusPerRequest ==
    \A q \in Handlers :
        hpos[q] = "done" =>
            /\ served[q] = "cache" => hout[q] = "hit"
            /\ served[q] = "scrape" /\ wrote[q] => hout[q] = "miss"

\* =================================================== claims, Domain Memory
\* What the claim promises a Get of host d returning at time t, given the last
\* Set or Delete of d.
Remembered(d, t) ==
    IF mlast[d].kind = "set" /\ t <= mlast[d].at + ttl THEN mlast[d].engine ELSE ""

\* C28 as stated: a Get that began after the last Set(d, e) returns e up to and
\* including ttl after that Set and "" later; after Delete(d) it returns "".
C28_GetFollowsLastSetOrDelete ==
    mgot.returned /\ ~mgot.overlapped /\ mlast[mgot.host].kind # "none" =>
        mgot.engine = Remembered(mgot.host, now)

\* =================================================== claims, HTTP engine
\* The request completed: it was built, the servers answered, the client
\* followed the redirects to the final response and the body was read.
Completed(x) == x.built /\ x.did /\ x.redirects < MaxVia /\ x.read

\* C29: Fetch returns success exactly when the request completed, the final
\* status is below 400 and the Content-Type names text/html or
\* application/xhtml+xml in any letter case; otherwise it returns an error
\* and no result.
C29_SuccessIffHTMLBelow400 ==
    hfetch.returned =>
        LET x == hfetch.exchange IN
        /\ hfetch.err = NilErr <=> (Completed(x) /\ x.status < 400 /\ x.ct.html)
        /\ hfetch.err # NilErr => hfetch.result = NoFetchResult
        /\ hfetch.err = NilErr =>
            /\ hfetch.result # NoFetchResult
            /\ hfetch.result.StatusCode = x.status

\* Fetch succeeded on a 399 with an upper-case Content-Type.
C29_Witness ==
    /\ hfetch.returned /\ hfetch.err = NilErr
    /\ hfetch.exchange.status = 399
    /\ hfetch.exchange.ct.chars = <<"T", "E", "X", "T", "/", "H", "T", "M", "L">>

\* C30 as stated: a FetchResult returned as a success has non-empty HTML.
C30_SuccessHasHTML ==
    hfetch.returned /\ hfetch.err = NilErr => hfetch.result.HTML # ""

\* =================================================== claims, simhash
\* Bit i of the fingerprint the claims promise for a sequence of tokens: set
\* exactly when more of the tokens have the bit set in their hash than clear.
MoreSet(tokens, i) ==
    Cardinality({j \in 1..Len(tokens) : BitSet(Hash(tokens[j]), i)})
        > Cardinality({j \in 1..Len(tokens) : ~BitSet(Hash(tokens[j]), i)})

\* C31: bit i of Fingerprint(text) is 1 exactly when strictly more of the
\* whitespace-separated tokens of text have bit i set in their hash than
\* clear; an empty or whitespace-only text gives 0, a single token its hash.
C31_FingerprintIsBitwiseMajority ==
    sim.op = "Fingerprint" =>
        LET tokens == Fields(sim.text) IN
        /\ \A i \in 0..(HashBits - 1) : BitSet(sim.fp, i) <=> MoreSet(tokens, i)
        /\ sim.fp \in Words64
        /\ (\A j \in 1..Len(sim.text) : IsSpace(sim.text[j])) => sim.fp = 0
        /\ Len(tokens) = 1 => sim.fp = Hash(tokens[1])

\* Fingerprint was applied to two tokens whose hashes differ: the bits they
\* disagree on are ties.
C31_Witness ==
    /\ sim.op = "Fingerprint"
    /\ Len(Fields(sim.text)) = 2
    /\ Hash(Fields(sim.text)[1]) # Hash(Fields(sim.text)[2])
    /\ sim.fp # 0

\* C32: Distance(a, b) is the number of bit positions where a and b differ,
\* hence 0 for a = b, symmetric, and the full width between 0 and all-ones;
\* Similar(a, b, k) holds exactly when Distance(a, b) <= k.
C32_DistanceCountsDifferingBits ==
    /\ sim.op = "Distance" =>
        /\ sim.d = Cardinality({i \in 0..(HashBits - 1) : BitSet(sim.a, i) # BitSet(sim.b, i)})
        /\ sim.d = Distance(sim.b, sim.a)
        /\ sim.a = sim.b => sim.d = 0
        /\ sim.a = 0 /\ sim.b = 2 ^ HashBits - 1 => sim.d = HashBits
    /\ sim.op = "Similar" =>
        (sim.similar <=>
            Cardinality({i \in 0..(HashBits - 1) : BitSet(sim.a, i) # BitSet(sim.b, i)})
                <= sim.threshold)

\* Similar held at a threshold equal to a positive distance.
C32_Witness ==
    /\ sim.op = "Similar" /\ sim.similar
    /\ sim.threshold = Distance(sim.a, sim.b)
    /\ sim.threshold > 0

\* The names of the start tags and self-closing tags of an input, in order.
OpenTagNames(html) ==
    LET tags == SelectSeq(html, LAMBDA t : t.type \in {"StartTag", "SelfClosingTag"}) IN
    [i \in 1..Len(tags) |-> tags[i].name]

\* The 3-grams of consecutive names, joined by "_".
Trigrams(names) ==
    [i \in 1..(Len(names) - 2) |->
        names[i] \o <<"_">> \o names[i + 1] \o <<"_">> \o names[i + 2]]

\* C33: FingerprintDOM depends only on the sequence of start-tag and
\* self-closing-tag names: an input and the bare sequence of its tags have the
\* same fingerprint; no tags give 0, one or two tags the fingerprint of the
\* tag names, three or more the fingerprint of their 3-grams.
C33_DOMFingerprintOfTagSequence ==
    sim.op = "FingerprintDOM" =>
        LET names == OpenTagNames(sim.html)
            tokens == IF Len(names) < 3 THEN names ELSE Trigrams(names)
        IN  /\ sim.fp = sim.bare
            /\ Len(names) = 0 => sim.fp = 0
            /\ \A i \in 0..(HashBits - 1) : BitSet(sim.fp, i) <=> MoreSet(tokens, i)

\* FingerprintDOM was applied to an input with text, an end tag and at least
\* three tags.
C33_Witness ==
    /\ sim.op = "FingerprintDOM"
    /\ Len(OpenTagNames(sim.html)) >= 3
    /\ \E i \in 1..Len(sim.html) : sim.html[i].type \in {"Text", "EndTag"}
    /\ sim.fp # 0

\* C34 as stated: a chain of N redirects is followed to the final response
\* for every N from 0 to 10, and the fetch fails for every longer chain.
C34_TenRedirectsFollowed ==
    hfetch.returned =>
        LET x == hfetch.exchange IN
        x.built /\ x.did /\ x.read /\ x.status < 400 /\ x.ct.html =>
            (hfetch.err = NilErr <=> x.redirects <= 10)


\* ====================================== claims, pool scaling and shutdown

\* ceil(L x scaleStep), computed from the configured step in percent
StepOf(L) == IF (L * ScaleStepPct) % 100 = 0 THEN (L * ScaleStepPct) \div 100
             ELSE (L * ScaleStepPct) \div 100 + 1

\* Client c has a handle checked out: Get has returned it and Put has not yet
\* given it back or destroyed it.
CheckedOut(c) == cpc[c] \in {"holding", "putRequeue", "putDestroy"}

\* C35: a scale check that read L live handles destroys at most ceil(L x scaleStep)
\* handles, each received from the ready-queue and checked out by nobody, and only
\* under memory pressure; or it creates at most ceil(L x scaleStep) handles, and only
\* without memory pressure and with active/L > 0.8; it never does both, and does
\* nothing otherwise.
C35_ScaleCheckIsBounded ==
    /\ sdone.destroyed <= StepOf(totalSize)
    /\ sdone.created <= StepOf(totalSize)
    /\ sdone.destroyed > 0 => pressure /\ sdone.created = 0
    /\ sdone.created > 0 =>
           /\ ~pressure
           /\ totalSize > 0
           /\ sdone.active * 10 > 8 * totalSize
           /\ sdone.destroyed = 0
    /\ spc = "shrinkDestroy" => \A c \in Clients : CheckedOut(c) => held[c] # sh
    /\ spc = "idle" => sdone.destroyed = 0 /\ sdone.created = 0

\* A scale check has destroyed an idle handle while a client has another checked out.
C35_Witness ==
    /\ sdone.destroyed = 1
    /\ spc = "shrinkCheck"
    /\ \E c \in Clients : CheckedOut(c)

\* C36: once Stop has returned, and no Get or Put has taken a step since Stop began,
\* no handle is tracked and the ready-queue is empty, whatever the scaling loop does.
C36_StopLeavesNothing ==
    (stop.pc = "done" /\ stop.quiet) => all = {} /\ idle = <<>>

\* C38: the destroyer is called at most once for each handle id.
C38_DestroyedAtMostOnce == \A i \in 1..MaxId : destroys[i] <= 1

\* ====================================== claims, Domain Memory expiry
\* The entry of host d is absent or expired at the current time.
Removable(d) == store[d] = NoEntry \/ now > store[d].expiresAt

\* C37: every removal by Get's lazy expiry and by the cleanup walk takes away an
\* entry that is expired at the moment of the removal, whatever Set calls run
\* beside them.
C37_OnlyExpiredRemoved ==
    [][/\ (mget.pc = "expired" /\ mget'.pc = "idle") => Removable(mget.host)
       /\ (msweep.pc = "deleting" /\ msweep'.pc = "walking") => Removable(msweep.key)]_vars

\* ====================================== claims, dispatcher, engine calls
\* Dispatch called engine i's Fetch as the engine the domain memory named.
MemFetched(i) == memEngine = i /\ (pc = "memFetch" \/ memOutcome # "none")

\* The calls of engine i's Fetch in the current Dispatch: one as the remembered
\* engine, one by the engine's race task.
Fetches(i) == (IF MemFetched(i) THEN 1 ELSE 0) + (IF Called(i) THEN 1 ELSE 0)

\* C39 as stated: within one Dispatch call each engine's Fetch is invoked at most
\* once, the remembered engine included.
C39_EachEngineFetchedOnce == \A i \in EngineIds : Fetches(i) <= 1

\* C39, amended: within one Dispatch call an engine's Fetch is invoked at most
\* once, except that the remembered engine, once its Fetch has returned an error,
\* is invoked a second time by its race task.
C39_FetchedTwiceOnlyAfterRememberedFailed ==
    \A i \in EngineIds :
        Fetches(i) > 1 => i = memEngine /\ memOutcome \in ErrKinds /\ pc # "memFetch"

\* The remembered engine failed and its race task has called its Fetch again.
C39_Witness ==
    /\ memEngine = 1
    /\ memOutcome = "engine"
    /\ tpc[1] = "fetch"

\* The deadline of the dispatch context lies within the modelled span of time.
DeadlineInSpan == deadline <= MaxClock

\* C40: every task of a race terminates: a task never finds the results channel
\* full when it posts, the channel is closed only when every task has finished,
\* each task that was spawned ends, and the channel ends closed, whether or not
\* Dispatch has returned in the meantime.
C40_RaceTasksTerminate ==
    /\ [](\A i \in EngineIds : tpc[i] = "fetch" => Len(results) < Len(Engines))
    /\ [](closed => \A i \in EngineIds : tpc[i] = "done")
    /\ \A i \in EngineIds :
           (tpc[i] \in {"delay", "fetch"} /\ DeadlineInSpan) ~> (tpc[i] = "done")
    /\ ((\E i \in EngineIds : tpc[i] # "none") /\ DeadlineInSpan) ~> closed

\* Dispatch returned the winner's result, every task has ended and the channel is
\* closed with a later outcome still in its buffer.
C40_Witness ==
    /\ dret.returned /\ dret.err = NilErr
    /\ closed
    /\ results # <<>>

====
